---- MODULE Spec2Model ----
(***************************************************************************)
(* Model of the arena battle engine (src/arena): event bus, initiative      *)
(* timeline, stat model, effect controller, resource pool and the battle    *)
(* loop.  Floats are modelled by integers; the scenarios use values for     *)
(* which every division of the code is exact.                               *)
(***************************************************************************)
EXTENDS Integers, Sequences, FiniteSets, TLC

VARIABLES
    queue,      \* Timeline.queue: the binary heap kept by heapq, as a sequence
    counter,    \* Timeline.counter
    addOrder,   \* history: the counters handed out by add_combatant, in call order
    listeners,  \* EventManager._listeners of every bus: bus -> event name -> list of (priority, listener)
    regOrder,   \* history: per event name, the registered pairs in registration order
    stack,      \* the broadcasts in progress (innermost last)
    evCalls,    \* history: number of register calls and of broadcasts made so far
    cfg,        \* the scenario: teams and the configuration every actor is built from
    current,    \* DynamicStats.current of every actor: stat -> value
    bonus,      \* DynamicStats.bonus of every actor: stat -> accumulated modifier
    sumDeltas,  \* history: per actor and stat, the sum of the deltas given to apply_modifier
    overridden, \* history: per actor and stat, whether set_override was called
    pinned,     \* history: per actor and stat, the value of the last set_override
                \* since the last refresh, if there was one
    effects,    \* EffectController.effects of every actor: the dict, in insertion order
    efHist,     \* history: per actor and effect name, what the applications since the
                \* entry was created contributed, its first duration and its ticks
    resources,  \* ResourcePool.resources of every actor: the dict, in insertion order
    hp,         \* Combatant.hp of every actor
    alive,      \* Combatant.alive of every actor
    cooldowns,  \* Combatant.skill_cooldowns of every actor: skill name -> turns left
    event_manager, \* Combatant.event_manager of every actor: the bus it broadcasts on
    global_effects, \* Battlefield.global_effects
    turn_number,   \* Battle.turn_number
    time,       \* Battle.time
    max_turns,  \* the argument of Battle.run
    sinceUse,   \* history: per actor and skill, the turns the actor has started since
                \* it last used the skill, or -1 if it has not used it
    pc,         \* where the battle is: "new", "running", "done", or "error" once run raised
    endEvents,  \* history: the payloads of the battle_end events broadcast so far
    damage_types,  \* the module-level list stats.DAMAGE_TYPES, shared by every DynamicStats
    resistance_bonus, \* DynamicStats.resistance_bonus of every actor: damage type -> amount
    fieldHist,  \* history: the field effects added so far, as they were added, and
                \* the number of Battlefield.tick calls made so far
    exits,      \* history: per actor, the exit events broadcast for it and the
                \* Team.handle_death calls made for it so far
    ops,        \* history: number of calls made on a component exercised on its own
    obs         \* the last operation that completed, with its inputs and result

vars == <<queue, counter, addOrder, listeners, regOrder, stack, evCalls, cfg, current, bonus,
          sumDeltas, overridden, pinned, effects, efHist, resources, hp, alive, cooldowns,
          event_manager, global_effects, turn_number, time, max_turns, sinceUse, pc, endEvents, exits,
          damage_types, resistance_bonus, fieldHist, ops, obs>>

tlVars == <<queue, counter, addOrder>>
evVars == <<listeners, regOrder, stack, evCalls>>
stVars == <<current, bonus, sumDeltas, overridden, pinned>>
efVars == <<effects, efHist>>
rsVars == <<resources>>
btVars == <<hp, alive, cooldowns, event_manager, global_effects, turn_number, time, max_turns, sinceUse,
            pc, endEvents, exits>>
fxVars == <<damage_types, resistance_bonus, fieldHist>>
cmVars == <<cfg, ops, btVars, fxVars>>

NoObs == [op |-> "none"]

Max(a, b) == IF a >= b THEN a ELSE b
Min(a, b) == IF a <= b THEN a ELSE b

Range(s) == {s[i] : i \in 1..Len(s)}

(***************************************************************************)
(* Names (arena/constants.py is not part of the sources; the event names    *)
(* follow the one main.py spells out, "on_receive_damage")                  *)
(***************************************************************************)

ON_ENTER_BATTLE == "on_enter_battle"
ON_EXIT_BATTLE == "on_exit_battle"
ON_TURN_START == "on_turn_start"
ON_TURN_END == "on_turn_end"
ON_USE_SKILL == "on_use_skill"
ON_ATTACK == "on_attack"
ON_RECEIVE_DAMAGE == "on_receive_damage"
ON_HEALED == "on_healed"
ON_APPLY_EFFECT == "on_apply_effect"
ON_REMOVE_EFFECT == "on_remove_effect"
ON_ALLY_DEATH == "on_ally_death"
ON_ALLY_ACTION == "on_ally_action"
ON_ENEMY_ACTION == "on_enemy_action"
ON_FIELD_APPLY == "on_field_apply"
ON_FIELD_TICK == "on_field_tick"
ON_FIELD_EXPIRE == "on_field_expire"
BATTLE_END == "battle_end"

EventNames ==
    {ON_ENTER_BATTLE, ON_EXIT_BATTLE, ON_TURN_START, ON_TURN_END, ON_USE_SKILL, ON_ATTACK,
     ON_RECEIVE_DAMAGE, ON_HEALED, ON_APPLY_EFFECT, ON_REMOVE_EFFECT, ON_ALLY_DEATH,
     ON_ALLY_ACTION, ON_ENEMY_ACTION, ON_FIELD_APPLY, ON_FIELD_TICK,
     ON_FIELD_EXPIRE, BATTLE_END}

Actors == {"a1", "a2", "b1"}

\* the battle's manager, and the private manager Combatant.__init__ makes for an
\* actor that is given none
Buses == {"battle"} \cup Actors

(***************************************************************************)
(* Initiative timeline (src/arena/timeline.py)                              *)
(***************************************************************************)

\* bound on the number of add_combatant calls explored on a bare timeline
MaxAdds == 4

\* the speeds of the actors scheduled on a bare timeline
TlSpeeds == {50, 100, 200}

\* the clock values a bare timeline is asked to schedule at
TlTimes == {0, 1}

\* TimelineEntry is ordered on (ready_at, counter); the combatant does not compare
EntryLessByTimeOnly(e1, e2) == e1.ready_at < e2.ready_at

EntryLess(e1, e2) ==
    \/ e1.ready_at < e2.ready_at
    \/ e1.ready_at = e2.ready_at /\ e1.counter < e2.counter

\* heapq._siftdown: move the item at pos up towards startpos (0-based positions)
RECURSIVE SiftDownLoop(_, _, _, _)
SiftDownLoop(heap, startpos, pos, newitem) ==
    IF pos > startpos
    THEN LET parentpos == (pos - 1) \div 2
             parent == heap[parentpos + 1]
         IN  IF EntryLess(newitem, parent)
             THEN SiftDownLoop([heap EXCEPT ![pos + 1] = parent], startpos, parentpos, newitem)
             ELSE [heap EXCEPT ![pos + 1] = newitem]
    ELSE [heap EXCEPT ![pos + 1] = newitem]

SiftDown(heap, startpos, pos) == SiftDownLoop(heap, startpos, pos, heap[pos + 1])

\* heapq._siftup: bubble the smaller child up until a leaf, then sift the item down
RECURSIVE SiftUpLoop(_, _, _)
SiftUpLoop(heap, pos, newitem) ==
    LET endpos == Len(heap)
        childpos == 2 * pos + 1
    IN  IF childpos < endpos
        THEN LET rightpos == childpos + 1
                 c == IF rightpos < endpos /\ ~EntryLess(heap[childpos + 1], heap[rightpos + 1])
                      THEN rightpos ELSE childpos
             IN  SiftUpLoop([heap EXCEPT ![pos + 1] = heap[c + 1]], c, newitem)
        ELSE <<[heap EXCEPT ![pos + 1] = newitem], pos>>

SiftUp(heap, pos) ==
    LET r == SiftUpLoop(heap, pos, heap[pos + 1])
    IN  SiftDown(r[1], pos, r[2])

HeapPush(heap, item) == SiftDown(Append(heap, item), 0, Len(heap))

\* heapq.heappop: <<returned item, heap afterwards>>
HeapPop(heap) ==
    LET lastelt == heap[Len(heap)]
        rest == SubSeq(heap, 1, Len(heap) - 1)
    IN  IF rest # <<>>
        THEN <<rest[1], SiftUp([rest EXCEPT ![1] = lastelt], 0)>>
        ELSE <<lastelt, rest>>

\* max(1.0, 100.0 / max(speed, 1.0)); exact for the speeds that divide 100
Interval(speed) == Max(1, 100 \div Max(speed, 1))

\* Timeline.add_combatant with the actor's derived speed already read
add_combatant(q, c, combatant, speed, current_time) ==
    HeapPush(q, [ready_at |-> current_time + Interval(speed), counter |-> c, combatant |-> combatant])

TlAdd ==
    /\ Len(addOrder) < MaxAdds
    /\ \E a \in {"a1", "b1"}, speed \in TlSpeeds, t \in TlTimes :
          /\ queue' = add_combatant(queue, counter, a, speed, t)
          /\ counter' = counter + 1
          /\ addOrder' = Append(addOrder, counter)
          /\ obs' = [op |-> "add", before |-> queue, combatant |-> a, speed |-> speed, time |-> t]
    /\ UNCHANGED <<evVars, stVars, efVars, rsVars, cmVars>>

TlPop ==
    /\ queue # <<>>
    /\ LET r == HeapPop(queue)
       IN  /\ queue' = r[2]
           /\ obs' = [op |-> "pop", before |-> queue, entry |-> r[1]]
    /\ UNCHANGED <<counter, addOrder>>
    /\ UNCHANGED <<evVars, stVars, efVars, rsVars, cmVars>>

(***************************************************************************)
(* Event bus (src/arena/events.py)                                          *)
(***************************************************************************)

\* bounds of the bare event bus: registrations, nesting of broadcasts, broadcasts
MaxRegs == 3
MaxBroadcasts == 2
MaxDepth == 2

\* the bus and the two event names the bare event bus is exercised on
EvBus == "battle"
EvNames == {ON_TURN_START, ON_ATTACK}
EvListeners == {"L1", "L2"}
EvPriorities == {0, 1}

\* where list.sort(key=priority, reverse=True) puts one more item: it is stable,
\* the item goes after every item whose priority is at least its own
InsertDescBeforeEqual(sorted, item) ==
    LET k == Cardinality({i \in 1..Len(sorted) : sorted[i].priority > item.priority})
    IN  SubSeq(sorted, 1, k) \o <<item>> \o SubSeq(sorted, k + 1, Len(sorted))

InsertDesc(sorted, item) ==
    LET k == Cardinality({i \in 1..Len(sorted) : sorted[i].priority >= item.priority})
    IN  SubSeq(sorted, 1, k) \o <<item>> \o SubSeq(sorted, k + 1, Len(sorted))

RECURSIVE SortDesc(_)
SortDesc(s) ==
    IF s = <<>> THEN <<>>
    ELSE InsertDesc(SortDesc(SubSeq(s, 1, Len(s) - 1)), s[Len(s)])

\* EventManager.register on one event's list
register(lst, listener, priority) ==
    SortDesc(Append(lst, [priority |-> priority, listener |-> listener]))

\* EventManager.unregister on one event's list: removes by identity
unregister(lst, listener) == SelectSeq(lst, LAMBDA e : e.listener # listener)

\* the list a running broadcast iterates: the copy taken when it started
LiveList(frame, live) == live

IterList(frame, live) == frame.snapshot

DoRegister(ev, l, p) ==
    /\ listeners' = [listeners EXCEPT ![EvBus][ev] = register(@, l, p)]
    /\ regOrder' = [regOrder EXCEPT ![ev] = Append(@, [priority |-> p, listener |-> l])]
    /\ evCalls' = [evCalls EXCEPT !.regs = @ + 1]

DoUnregister(ev, l) ==
    /\ listeners' = [listeners EXCEPT ![EvBus][ev] = unregister(@, l)]
    /\ regOrder' = [regOrder EXCEPT ![ev] = SelectSeq(@, LAMBDA e : e.listener # l)]
    /\ UNCHANGED evCalls

NewFrame(ev) ==
    [event |-> ev, snapshot |-> listeners[EvBus][ev], idx |-> 1, invoked |-> <<>>,
     liveAtStart |-> listeners[EvBus][ev], regAtStart |-> regOrder[ev], changed |-> FALSE]

\* register called from outside any broadcast
EvRegister ==
    /\ stack = <<>>
    /\ evCalls.regs < MaxRegs
    /\ \E ev \in EvNames, l \in EvListeners, p \in EvPriorities :
          /\ DoRegister(ev, l, p)
          /\ obs' = [op |-> "register", event |-> ev, listener |-> l, priority |-> p]
    /\ UNCHANGED stack
    /\ UNCHANGED <<tlVars, stVars, efVars, rsVars, cmVars>>

\* unregister called from outside any broadcast
EvUnregister ==
    /\ stack = <<>>
    /\ \E ev \in EvNames, l \in EvListeners :
          /\ DoUnregister(ev, l)
          /\ obs' = [op |-> "unregister", event |-> ev, listener |-> l]
    /\ UNCHANGED stack
    /\ UNCHANGED <<tlVars, stVars, efVars, rsVars, cmVars>>

\* broadcast is entered: the context is built and the list copied
EvBroadcastStart ==
    /\ Len(stack) < MaxDepth
    /\ evCalls.broadcasts < MaxBroadcasts
    /\ \E ev \in EvNames :
          /\ stack' = Append(stack, NewFrame(ev))
          /\ obs' = [op |-> "broadcast_start", event |-> ev, depth |-> Len(stack) + 1]
    /\ evCalls' = [evCalls EXCEPT !.broadcasts = @ + 1]
    /\ UNCHANGED <<listeners, regOrder>>
    /\ UNCHANGED <<tlVars, stVars, efVars, rsVars, cmVars>>

Top == stack[Len(stack)]

MarkChanged(frames, ev) ==
    [i \in 1..Len(frames) |->
        IF frames[i].event = ev THEN [frames[i] EXCEPT !.changed = TRUE] ELSE frames[i]]

\* the innermost broadcast calls its next listener, which returns without
\* touching the bus
EvInvokePlain ==
    /\ stack # <<>>
    /\ LET cur == IterList(Top, listeners[EvBus][Top.event])
       IN  /\ Top.idx <= Len(cur)
           /\ stack' = [stack EXCEPT ![Len(stack)] =
                           [@ EXCEPT !.idx = @ + 1, !.invoked = Append(@, cur[Top.idx])]]
           /\ obs' = [op |-> "invoke", event |-> Top.event, entry |-> cur[Top.idx]]
    /\ UNCHANGED <<listeners, regOrder, evCalls>>
    /\ UNCHANGED <<tlVars, stVars, efVars, rsVars, cmVars>>

\* the next listener registers a listener while it runs
EvInvokeRegister ==
    /\ stack # <<>>
    /\ evCalls.regs < MaxRegs
    /\ LET cur == IterList(Top, listeners[EvBus][Top.event])
       IN  /\ Top.idx <= Len(cur)
           /\ \E ev \in EvNames, l \in EvListeners, p \in EvPriorities :
                 /\ DoRegister(ev, l, p)
                 /\ stack' = MarkChanged(
                                [stack EXCEPT ![Len(stack)] =
                                   [@ EXCEPT !.idx = @ + 1, !.invoked = Append(@, cur[Top.idx])]],
                                ev)
                 /\ obs' = [op |-> "invoke_register", event |-> Top.event, entry |-> cur[Top.idx],
                            on |-> ev, listener |-> l, priority |-> p]
    /\ UNCHANGED <<tlVars, stVars, efVars, rsVars, cmVars>>

\* the next listener unregisters a listener while it runs
EvInvokeUnregister ==
    /\ stack # <<>>
    /\ LET cur == IterList(Top, listeners[EvBus][Top.event])
       IN  /\ Top.idx <= Len(cur)
           /\ \E ev \in EvNames, l \in EvListeners :
                 /\ \E i \in 1..Len(listeners[EvBus][ev]) : listeners[EvBus][ev][i].listener = l
                 /\ DoUnregister(ev, l)
                 /\ stack' = MarkChanged(
                                [stack EXCEPT ![Len(stack)] =
                                   [@ EXCEPT !.idx = @ + 1, !.invoked = Append(@, cur[Top.idx])]],
                                ev)
                 /\ obs' = [op |-> "invoke_unregister", event |-> Top.event, entry |-> cur[Top.idx],
                            on |-> ev, listener |-> l]
    /\ UNCHANGED <<tlVars, stVars, efVars, rsVars, cmVars>>

\* the innermost broadcast has called every listener of its list and returns
EvBroadcastEnd ==
    /\ stack # <<>>
    /\ Top.idx > Len(IterList(Top, listeners[EvBus][Top.event]))
    /\ stack' = SubSeq(stack, 1, Len(stack) - 1)
    /\ obs' = [op |-> "broadcast_done", event |-> Top.event, invoked |-> Top.invoked,
               liveAtStart |-> Top.liveAtStart, regAtStart |-> Top.regAtStart,
               changed |-> Top.changed, liveAtEnd |-> listeners[EvBus][Top.event]]
    /\ UNCHANGED <<listeners, regOrder, evCalls>>
    /\ UNCHANGED <<tlVars, stVars, efVars, rsVars, cmVars>>

(***************************************************************************)
(* Scenarios: the actors, as main.py builds them, with small numbers        *)
(***************************************************************************)

STAT_NAMES ==
    {"hp", "atk", "mag", "defense", "resistance", "crit_chance", "crit_damage", "speed",
     "accuracy", "evasion"}

DAMAGE_TYPES == {"physical", "magical", "fire", "ice", "electric", "arcane", "true"}

\* the list as the module defines it
DAMAGE_TYPES_LIST == <<"physical", "magical", "fire", "ice", "electric", "arcane", "true">>

\* the defaults of the Stats dataclass; crit_chance, crit_damage, accuracy and
\* evasion are in hundredths (1.5 is 150)
DefaultStats ==
    [hp |-> 0, atk |-> 0, mag |-> 0, defense |-> 0, resistance |-> 0, crit_chance |-> 0,
     crit_damage |-> 150, speed |-> 100, accuracy |-> 100, evasion |-> 5]

NoResistances == [d \in DAMAGE_TYPES |-> 0]

\* Skill and its three subclasses, one record shape for all
SkillDefaults ==
    [name |-> "", kind |-> "attack", cooldown |-> 0, tags |-> <<>>, costs |-> <<>>,
     power |-> 1, damage_type |-> "physical", amount |-> 0, stat |-> "atk", duration |-> 2]

Attack(name, power, cooldown, costs) ==
    [SkillDefaults EXCEPT !.name = name, !.kind = "attack", !.power = power,
                          !.cooldown = cooldown, !.costs = costs]

Heal(name, amount, cooldown, costs) ==
    [SkillDefaults EXCEPT !.name = name, !.kind = "heal", !.amount = amount,
                          !.cooldown = cooldown, !.costs = costs]

Buff(name, stat, amount, duration, cooldown) ==
    [SkillDefaults EXCEPT !.name = name, !.kind = "buff", !.stat = stat, !.amount = amount,
                          !.duration = duration, !.cooldown = cooldown]

\* Resource(name, maximum, value, regen_per_turn, decay_per_turn, allow_overcap, gain_on_events)
Resource(name, maximum, value, regen, decay, overcap, gains) ==
    [name |-> name, maximum |-> maximum, value |-> value, regen_per_turn |-> regen,
     decay_per_turn |-> decay, allow_overcap |-> overcap, gain_on_events |-> gains]

Knight ==
    [stats |-> [DefaultStats EXCEPT !.hp = 8, !.atk = 2, !.defense = 100, !.speed = 100],
     resistances |-> NoResistances,
     tags |-> {"light", "paladin"},
     skills |-> <<[Attack("Golpe Escudo", 1, 0, <<>>) EXCEPT !.tags = <<"physical">>],
                  Buff("Buff Defensa", "defense", 100, 3, 4)>>,
     resources |-> <<Resource("fury", 3, 1, 0, 0, FALSE,
                              <<[event |-> ON_RECEIVE_DAMAGE, amount |-> 1]>>)>>]

Mage ==
    [stats |-> [DefaultStats EXCEPT !.hp = 3, !.atk = 1, !.mag = 2, !.speed = 50],
     resistances |-> NoResistances,
     tags |-> {"arcane", "human"},
     skills |-> <<[Attack("Rayo Arcano", 2, 1, <<>>) EXCEPT !.damage_type = "arcane",
                                                              !.tags = <<"arcane">>],
                  Heal("Heal Mage", 2, 2, <<[name |-> "mana", cost |-> 2]>>)>>,
     resources |-> <<Resource("mana", 4, 4, 1, 0, FALSE, <<>>)>>]

KnightVsMage ==
    [team_a |-> <<"a1">>, team_b |-> <<"b1">>, shared |-> FALSE,
     actors |-> [a \in {"a1", "b1"} |-> IF a = "a1" THEN Knight ELSE Mage]]

\* a knight with three meters: one fed by events, one with regen and decay,
\* one that may overcap
Berserker ==
    [Knight EXCEPT !.resources =
        <<Resource("fury", 3, 1, 0, 0, FALSE, <<[event |-> ON_RECEIVE_DAMAGE, amount |-> 1],
                                                [event |-> ON_TURN_START, amount |-> 2]>>),
          Resource("mana", 4, 4, 2, 1, FALSE, <<>>),
          Resource("rage", 2, 1, 2, 0, TRUE, <<[event |-> ON_RECEIVE_DAMAGE, amount |-> 2]>>),
          Resource("focus", 100, 90, 20, 0, FALSE, <<>>)>>]

BerserkerVsMage ==
    [KnightVsMage EXCEPT !.actors = [a \in {"a1", "b1"} |-> IF a = "a1" THEN Berserker ELSE Mage]]

\* an attacker whose stronger strike costs stamina it cannot always pay, and
\* whose hits may be critical
Duelist ==
    [stats |-> [DefaultStats EXCEPT !.hp = 6, !.atk = 1, !.speed = 100, !.crit_chance = 50,
                                    !.crit_damage = 200],
     resistances |-> [NoResistances EXCEPT !["arcane"] = 50, !["ice"] = 150],
     tags |-> {"human"},
     skills |-> <<Attack("Golpe", 1, 0, <<>>),
                  Attack("Estocada", 2, 0, <<[name |-> "stamina", cost |-> 2]>>)>>,
     resources |-> <<Resource("stamina", 3, 2, 1, 0, FALSE,
                              <<[event |-> ON_USE_SKILL, amount |-> 1]>>)>>]

\* an actor whose strike has a cooldown and whose spell costs a mana it has no
\* meter for: it has nothing to use on its second turn
Novice ==
    [stats |-> [DefaultStats EXCEPT !.hp = 5, !.atk = 1, !.speed = 200],
     resistances |-> NoResistances,
     tags |-> {},
     skills |-> <<Attack("Tajo", 1, 2, <<>>),
                  Attack("Hechizo", 3, 0, <<[name |-> "mana", cost |-> 1]>>)>>,
     resources |-> <<>>]

Squire == [Knight EXCEPT !.stats.hp = 2, !.stats.speed = 50]

\* two against one on the battle's own manager
Skirmish ==
    [team_a |-> <<"a1", "a2">>, team_b |-> <<"b1">>, shared |-> TRUE,
     actors |-> [a \in {"a1", "a2", "b1"} |->
                    IF a = "a1" THEN Squire ELSE IF a = "a2" THEN Mage ELSE Duelist]]

Duel ==
    [team_a |-> <<"a1">>, team_b |-> <<"b1">>, shared |-> TRUE,
     actors |-> [a \in {"a1", "b1"} |-> IF a = "a1" THEN Knight ELSE Duelist]]

Lesson ==
    [team_a |-> <<"a1">>, team_b |-> <<"b1">>, shared |-> FALSE,
     actors |-> [a \in {"a1", "b1"} |-> IF a = "a1" THEN Duelist ELSE Novice]]

\* a duelist whose stamina is drained by every skill that is used: the amount
\* of its event rule is negative
Brawler ==
    [Duelist EXCEPT !.skills = <<Attack("Golpe", 1, 0, <<>>),
                                 Attack("Estocada", 2, 0, <<[name |-> "stamina", cost |-> 3]>>)>>,
                    !.resources = <<Resource("stamina", 3, 2, 1, 0, FALSE,
                                             <<[event |-> ON_USE_SKILL, amount |-> -1]>>)>>]

Exertion ==
    [team_a |-> <<"a1">>, team_b |-> <<"b1">>, shared |-> TRUE,
     actors |-> [a \in {"a1", "b1"} |-> IF a = "a1" THEN Brawler ELSE Knight]]

\* an archer whose arrows do no harm, against a caster that a listener on the
\* battle's manager wounds whenever a turn starts
Ranger ==
    [stats |-> [DefaultStats EXCEPT !.hp = 8, !.atk = 0, !.speed = 200],
     resistances |-> NoResistances,
     tags |-> {},
     skills |-> <<Attack("Flecha", 2, 1, <<[name |-> "stamina", cost |-> 1]>>)>>,
     resources |-> <<Resource("stamina", 3, 3, 0, 0, FALSE, <<>>)>>]

Apprentice == [Mage EXCEPT !.skills = <<Mage.skills[1]>>]

\* a listener that strikes a given actor whenever its event fires
Bleed == [victim |-> "b1", strikes |-> 1]

Ambush ==
    [team_a |-> <<"a1">>, team_b |-> <<"b1">>, shared |-> TRUE,
     actors |-> [a \in {"a1", "b1"} |-> IF a = "a1" THEN Ranger ELSE Apprentice],
     hooks |-> <<[event |-> ON_TURN_START, listener |-> Bleed]>>]

\* the listeners a scenario registers on the battle's manager
Hooks(c) == IF "hooks" \in DOMAIN c THEN c.hooks ELSE <<>>

\* a caster with one point of health left
Wounded == [Mage EXCEPT !.stats.hp = 1]

\* two single-member teams, the knight against the caster with health 1
Execution ==
    [team_a |-> <<"a1">>, team_b |-> <<"b1">>, shared |-> FALSE,
     actors |-> [a \in {"a1", "b1"} |-> IF a = "a1" THEN Knight ELSE Wounded]]

\* the attacker and the defenders the damage formula is exercised on
Champion ==
    [stats |-> [DefaultStats EXCEPT !.hp = 500, !.atk = 180, !.mag = 90, !.crit_chance = 50],
     resistances |-> NoResistances,
     tags |-> {},
     skills |-> <<Attack("Golpe", 1, 0, <<>>)>>,
     resources |-> <<>>]

Guard ==
    [stats |-> [DefaultStats EXCEPT !.hp = 1000, !.atk = 10, !.defense = 120, !.resistance = 25],
     resistances |-> NoResistances,
     tags |-> {},
     skills |-> <<Attack("Golpe", 1, 0, <<>>)>>,
     resources |-> <<>>]

Golem ==
    [stats |-> [DefaultStats EXCEPT !.hp = 1000, !.defense = 1900, !.resistance = 100],
     resistances |-> NoResistances,
     tags |-> {"arcane_weak", "fire_resist"},
     skills |-> <<Attack("Golpe", 1, 0, <<>>)>>,
     resources |-> <<>>]

Sparring ==
    [team_a |-> <<"a1", "a2">>, team_b |-> <<"b1">>, shared |-> TRUE,
     actors |-> [a \in {"a1", "a2", "b1"} |->
                    IF a = "a1" THEN Guard ELSE IF a = "a2" THEN Golem ELSE Champion]]

Scenarios == {KnightVsMage, Skirmish, Duel, Lesson, Exertion, Ambush, Execution}

\* bound on the argument of Battle.run
MaxTurnCap == 5

Members(c) == c.team_a \o c.team_b
Cast(c) == Range(Members(c))

(***************************************************************************)
(* Stat model (src/arena/stats.py)                                          *)
(***************************************************************************)

\* bound on the number of calls made on a stat model exercised on its own
MaxStatOps == 4

\* the names, deltas and override values those calls are made with
StStats == {"atk", "speed"}
StDeltas == {-1, 2}
StValues == {0, 5}
StActor == "a1"
\* names outside the vocabulary
StUnknown == {"luck", "HP"}

Base(a) == cfg.actors[a].stats

\* DynamicStats._recalculate on one actor's maps
recalculate(cur, bon, base, name) == [cur EXCEPT ![name] = base[name] + bon[name]]

\* DynamicStats.get on one actor's maps
derived(cur, bon, name) == cur[name] + bon[name]

get(a, name) == derived(current[a], bonus[a], name)

\* DynamicStats.set_override on one actor's maps; ok is FALSE when it raises
set_override(st, name, value) ==
    IF name \notin STAT_NAMES
    THEN [st EXCEPT !.ok = FALSE]
    ELSE [ok |-> TRUE, bonus |-> st.bonus, current |-> [st.current EXCEPT ![name] = value]]

\* apply_modifier with the bonus written before the name is checked
apply_modifierLateCheck(st, base, name, amount) ==
    LET bon == IF name \in DOMAIN st.bonus THEN [st.bonus EXCEPT ![name] = @ + amount]
               ELSE st.bonus @@ (name :> amount)
    IN  IF name \notin STAT_NAMES
        THEN [ok |-> FALSE, bonus |-> bon, current |-> st.current]
        ELSE [ok |-> TRUE, bonus |-> bon, current |-> recalculate(st.current, bon, base, name)]

\* DynamicStats.apply_modifier on one actor's maps; ok is FALSE when it raises
apply_modifier(st, base, name, amount) ==
    IF name \notin STAT_NAMES
    THEN [st EXCEPT !.ok = FALSE]
    ELSE LET bon == [st.bonus EXCEPT ![name] = @ + amount]
         IN  [ok |-> TRUE, bonus |-> bon, current |-> recalculate(st.current, bon, base, name)]

\* the damage types and amounts apply_resistance_modifier is called with
StTypes == {"ice", "poison"}
StResAmounts == {25}

\* DynamicStats.apply_resistance_modifier on the module's list and one actor's map
apply_resistance_modifier(types, rb, damage_type, amount) ==
    [types |-> IF damage_type \notin Range(types) THEN Append(types, damage_type) ELSE types,
     bonus |-> IF damage_type \in DOMAIN rb THEN [rb EXCEPT ![damage_type] = @ + amount]
               ELSE rb @@ (damage_type :> amount)]

\* DynamicStats.as_dict: the stats, then one res_ key per entry of DAMAGE_TYPES
as_dict(a) ==
    LET types == Range(damage_types)
        keys == STAT_NAMES \cup {"res_" \o d : d \in types}
    IN  [k \in keys |->
            IF k \in STAT_NAMES THEN get(a, k)
            ELSE LET d == CHOOSE d \in types : "res_" \o d = k
                 IN  (IF d \in DOMAIN cfg.actors[a].resistances
                      THEN cfg.actors[a].resistances[d] ELSE 0)
                     + (IF d \in DOMAIN resistance_bonus[a] THEN resistance_bonus[a][d] ELSE 0)]

NotPinned == [set |-> FALSE, value |-> 0]

StOf(a) == [ok |-> TRUE, bonus |-> bonus[a], current |-> current[a]]

StApplyModifier ==
    /\ ops < MaxStatOps
    /\ \E name \in StStats, amount \in StDeltas :
          LET r == apply_modifier(StOf(StActor), Base(StActor), name, amount)
          IN  /\ current' = [current EXCEPT ![StActor] = r.current]
              /\ bonus' = [bonus EXCEPT ![StActor] = r.bonus]
              /\ sumDeltas' = [sumDeltas EXCEPT ![StActor][name] = @ + amount]
              /\ obs' = [op |-> "apply_modifier", stat |-> name, amount |-> amount, raised |-> FALSE]
    /\ ops' = ops + 1
    /\ UNCHANGED <<overridden, pinned, cfg, fxVars>>
    /\ UNCHANGED <<btVars, tlVars, evVars, efVars, rsVars>>

\* DynamicStats.set_override with a recognized name
StSetOverride ==
    /\ ops < MaxStatOps
    /\ \E name \in StStats, value \in StValues :
          /\ current' = [current EXCEPT ![StActor] = set_override(StOf(StActor), name, value).current]
          /\ overridden' = [overridden EXCEPT ![StActor][name] = TRUE]
          /\ pinned' = [pinned EXCEPT ![StActor][name] = [set |-> TRUE, value |-> value]]
          /\ obs' = [op |-> "set_override", stat |-> name, value |-> value, raised |-> FALSE]
    /\ ops' = ops + 1
    /\ UNCHANGED <<bonus, sumDeltas, cfg, fxVars>>
    /\ UNCHANGED <<btVars, tlVars, evVars, efVars, rsVars>>

\* DynamicStats.refresh
StRefresh ==
    /\ ops < MaxStatOps
    /\ current' = [current EXCEPT ![StActor] =
                      [name \in STAT_NAMES |-> Base(StActor)[name] + bonus[StActor][name]]]
    /\ obs' = [op |-> "refresh"]
    /\ ops' = ops + 1
    /\ pinned' = [pinned EXCEPT ![StActor] = [name \in STAT_NAMES |-> NotPinned]]
    /\ UNCHANGED <<bonus, sumDeltas, overridden, cfg, fxVars>>
    /\ UNCHANGED <<btVars, tlVars, evVars, efVars, rsVars>>

\* DynamicStats.apply_resistance_modifier
StApplyResistanceModifier ==
    /\ ops < MaxStatOps
    /\ \E damage_type \in StTypes, amount \in StResAmounts :
          LET r == apply_resistance_modifier(damage_types, resistance_bonus[StActor],
                                             damage_type, amount)
          IN  /\ damage_types' = r.types
              /\ resistance_bonus' = [resistance_bonus EXCEPT ![StActor] = r.bonus]
              /\ obs' = [op |-> "apply_resistance_modifier", type |-> damage_type,
                         amount |-> amount, raised |-> FALSE]
    /\ ops' = ops + 1
    /\ UNCHANGED <<stVars, cfg, fieldHist>>
    /\ UNCHANGED <<btVars, tlVars, evVars, efVars, rsVars>>

\* apply_modifier or set_override with a name outside STAT_NAMES: ValueError
StInvalidName ==
    /\ ops < MaxStatOps
    /\ \E op \in {"apply_modifier", "set_override"}, name \in StUnknown, amount \in StDeltas :
          LET r == IF op = "apply_modifier"
                   THEN apply_modifier(StOf(StActor), Base(StActor), name, amount)
                   ELSE set_override(StOf(StActor), name, amount)
          IN  /\ ~r.ok
              /\ current' = [current EXCEPT ![StActor] = r.current]
              /\ bonus' = [bonus EXCEPT ![StActor] = r.bonus]
              /\ obs' = [op |-> op, stat |-> name, amount |-> amount, raised |-> TRUE]
    /\ ops' = ops + 1
    /\ UNCHANGED <<sumDeltas, overridden, pinned, cfg, fxVars>>
    /\ UNCHANGED <<btVars, tlVars, evVars, efVars, rsVars>>


(***************************************************************************)
(* Scheduling of actors whose speed is modified: the timeline reads the      *)
(* actor's speed through DynamicStats.get                                    *)
(***************************************************************************)

\* the speed modifiers applied; with the speeds 100 and 50 of the two actors
\* every interval is a whole number
ScDeltas == {-50, 100}

\* bound on the number of modifiers applied and on the number of entries scheduled
MaxSchedules == 3

\* DynamicStats.apply_modifier("speed", amount) on an actor
ScModify ==
    /\ ops < MaxSchedules
    /\ \E a \in Cast(cfg), amount \in ScDeltas :
          LET r == apply_modifier(StOf(a), Base(a), "speed", amount)
          IN  /\ current' = [current EXCEPT ![a] = r.current]
              /\ bonus' = [bonus EXCEPT ![a] = r.bonus]
              /\ sumDeltas' = [sumDeltas EXCEPT ![a]["speed"] = @ + amount]
              /\ obs' = [op |-> "apply_modifier", actor |-> a, stat |-> "speed",
                         amount |-> amount, raised |-> FALSE]
    /\ ops' = ops + 1
    /\ UNCHANGED <<overridden, pinned, cfg, fxVars>>
    /\ UNCHANGED <<btVars, tlVars, evVars, efVars, rsVars>>

\* Timeline.add_combatant(actor, current_time=t) and Timeline.schedule_next,
\* which is the same call
ScAdd ==
    /\ Len(addOrder) < MaxSchedules
    /\ \E a \in Cast(cfg), t \in TlTimes, op \in {"add_combatant", "schedule_next"} :
          /\ queue' = add_combatant(queue, counter, a, get(a, "speed"), t)
          /\ counter' = counter + 1
          /\ addOrder' = Append(addOrder, counter)
          /\ obs' = [op |-> op, before |-> queue, combatant |-> a, current_time |-> t]
    /\ UNCHANGED <<evVars, stVars, efVars, rsVars, cmVars>>


(***************************************************************************)
(* Effect controller (src/arena/effects.py)                                 *)
(***************************************************************************)

\* bound on the number of calls made on an effect controller exercised on its own
MaxEffectOps == 4

EffectNames == {"buff_atk", "buff_defense", "slow"}

\* EffectInstance; on_tick and on_expire say whether a hook is set (no hook of
\* the sources changes a combatant, a set hook is only recorded as called)
Effect(name, duration, stacks, modifiers, on_tick, on_expire) ==
    [name |-> name, duration |-> duration, stacks |-> stacks, modifiers |-> modifiers,
     on_tick |-> on_tick, on_expire |-> on_expire]

\* the effects given to apply when the controller is exercised on its own
EfInputs ==
    {Effect("buff_atk", d, k, <<[stat |-> "atk", amount |-> m]>>, h, h) :
        d \in {1, 3}, k \in {1, 2}, m \in {20, 40}, h \in BOOLEAN}
    \cup {Effect("slow", 2, 1, <<[stat |-> "speed", amount |-> -10],
                                 [stat |-> "atk", amount |-> 20]>>, FALSE, FALSE)}

Atk40 == Effect("buff_atk", 3, 1, <<[stat |-> "atk", amount |-> 40]>>, FALSE, FALSE)

\* dict lookup by name: the position of the entry, 0 when absent
Find(effs, name) ==
    IF \E i \in 1..Len(effs) : effs[i].name = name
    THEN CHOOSE i \in 1..Len(effs) : effs[i].name = name
    ELSE 0

Names(effs) == {effs[i].name : i \in 1..Len(effs)}

RemoveAt(seq, i) == SubSeq(seq, 1, i - 1) \o SubSeq(seq, i + 1, Len(seq))

\* for stat, value in modifiers.items(): stats.apply_modifier(stat, value * factor),
\* stopping where apply_modifier raises
RECURSIVE ApplyMods(_, _, _, _)
ApplyMods(st, base, mods, factor) ==
    IF mods = <<>> \/ ~st.ok THEN st
    ELSE ApplyMods(apply_modifier(st, base, mods[1].stat, mods[1].amount * factor),
                   base, Tail(mods), factor)

\* the state of one actor the controller works on, with the trace of the hooks
\* it calls and the events it broadcasts
EfState(a) ==
    [effects |-> effects[a], bonus |-> bonus[a], current |-> current[a], ok |-> TRUE,
     trace |-> <<>>]

Event(name, source, data) == [kind |-> "event", name |-> name, source |-> source, data |-> data]

\* the entry apply leaves under the effect's name
MergedKeepDuration(effs, e) ==
    LET i == Find(effs, e.name)
    IN  IF i # 0
        THEN [effs EXCEPT ![i] = [@ EXCEPT !.stacks = @ + e.stacks]]
        ELSE Append(effs, e)

Merged(effs, e) ==
    LET i == Find(effs, e.name)
    IN  IF i # 0
        THEN [effs EXCEPT ![i] = [@ EXCEPT !.stacks = @ + e.stacks,
                                           !.duration = Max(@, e.duration)]]
        ELSE Append(effs, e)

\* EffectController.apply
apply(A, owner, base, e) ==
    LET effs == Merged(A.effects, e)
        st == ApplyMods([ok |-> TRUE, bonus |-> A.bonus, current |-> A.current], base,
                        e.modifiers, e.stacks)
    IN  [effects |-> effs, bonus |-> st.bonus, current |-> st.current, ok |-> st.ok,
         trace |-> IF st.ok
                   THEN Append(A.trace, Event(ON_APPLY_EFFECT, owner,
                                   [effect |-> e.name, stacks |-> effs[Find(effs, e.name)].stacks]))
                   ELSE A.trace]

\* EffectController.remove_effect
remove_effect(A, owner, base, name) ==
    LET i == Find(A.effects, name)
    IN  IF i = 0 THEN A
        ELSE LET effect == A.effects[i]
                 st == ApplyMods([ok |-> TRUE, bonus |-> A.bonus, current |-> A.current], base,
                                 effect.modifiers, -effect.stacks)
             IN  [effects |-> RemoveAt(A.effects, i), bonus |-> st.bonus,
                  current |-> st.current, ok |-> st.ok,
                  trace |-> IF st.ok
                            THEN Append(A.trace, Event(ON_REMOVE_EFFECT, owner, [effect |-> name]))
                            ELSE A.trace]

Hook(kind, name) == [kind |-> kind, name |-> name]

\* EffectInstance.tick followed by expire, for the entry called name
tickExpiresBelowZero(A, owner, base, name) ==
    LET i == Find(A.effects, name)
        e == A.effects[i]
        t1 == IF e.on_tick THEN Append(A.trace, Hook("on_tick", name)) ELSE A.trace
        A1 == [A EXCEPT !.effects[i].duration = @ - 1, !.trace = t1]
    IN  IF e.duration - 1 < 0
        THEN remove_effect(
                 [A1 EXCEPT !.trace = IF e.on_expire THEN Append(@, Hook("on_expire", name)) ELSE @],
                 owner, base, name)
        ELSE A1

tick(A, owner, base, name) ==
    LET i == Find(A.effects, name)
        e == A.effects[i]
        t1 == IF e.on_tick THEN Append(A.trace, Hook("on_tick", name)) ELSE A.trace
        A1 == [A EXCEPT !.effects[i].duration = @ - 1, !.trace = t1]
    IN  IF e.duration - 1 <= 0
        THEN remove_effect(
                 [A1 EXCEPT !.trace = IF e.on_expire THEN Append(@, Hook("on_expire", name)) ELSE @],
                 owner, base, name)
        ELSE A1

\* EffectController.tick_all over the copy of the values taken on entry
RECURSIVE TickEach(_, _, _, _)
TickEach(A, owner, base, snapshot) ==
    IF snapshot = <<>> \/ ~A.ok THEN A
    ELSE TickEach(tick(A, owner, base, snapshot[1].name), owner, base, Tail(snapshot))

tick_all(A, owner, base) == TickEach(A, owner, base, A.effects)

NoHist == [contrib |-> [name \in STAT_NAMES |-> 0], d0 |-> 0, ticks |-> 0, apps |-> 0]

\* what one application adds to each stat
Contribution(e) ==
    [name \in STAT_NAMES |->
        IF \E k \in 1..Len(e.modifiers) : e.modifiers[k].stat = name
        THEN e.stacks * e.modifiers[CHOOSE k \in 1..Len(e.modifiers) : e.modifiers[k].stat = name].amount
        ELSE 0]

\* the history after an apply, a removal of the names in gone, a tick of the rest
HistApplied(h, e) ==
    [h EXCEPT ![e.name] =
        [contrib |-> [name \in STAT_NAMES |-> @.contrib[name] + Contribution(e)[name]],
         d0 |-> IF @.apps = 0 THEN e.duration ELSE @.d0,
         ticks |-> @.ticks, apps |-> @.apps + 1]]

HistTicked(h, before, after) ==
    [name \in EffectNames |->
        IF name \in Names(before) /\ name \notin Names(after) THEN NoHist
        ELSE IF name \in Names(before) THEN [h[name] EXCEPT !.ticks = @ + 1]
        ELSE h[name]]

Store(a, A) ==
    /\ effects' = [effects EXCEPT ![a] = A.effects]
    /\ bonus' = [bonus EXCEPT ![a] = A.bonus]
    /\ current' = [current EXCEPT ![a] = A.current]

EfApply ==
    /\ ops < MaxEffectOps
    /\ \E e \in EfInputs :
          LET A == apply(EfState(StActor), StActor, Base(StActor), e)
              i == Find(effects[StActor], e.name)
          IN  /\ Store(StActor, A)
              /\ efHist' = [efHist EXCEPT ![StActor] = HistApplied(@, e)]
              /\ obs' = [op |-> "apply", effect |-> e, wasActive |-> i # 0,
                         prev |-> IF i # 0 THEN effects[StActor][i] ELSE e,
                         bonusBefore |-> bonus[StActor], trace |-> A.trace]
    /\ ops' = ops + 1
    /\ UNCHANGED <<sumDeltas, overridden, pinned, cfg, fxVars>>
    /\ UNCHANGED <<btVars, tlVars, evVars, rsVars>>

EfRemove ==
    /\ ops < MaxEffectOps
    /\ \E name \in EffectNames :
          LET A == remove_effect(EfState(StActor), StActor, Base(StActor), name)
          IN  /\ Store(StActor, A)
              /\ efHist' = [efHist EXCEPT ![StActor][name] = NoHist]
              /\ obs' = [op |-> "remove_effect", name |-> name,
                         present |-> name \in Names(effects[StActor]),
                         effectsBefore |-> effects[StActor], bonusBefore |-> bonus[StActor],
                         contrib |-> efHist[StActor][name].contrib, trace |-> A.trace]
    /\ ops' = ops + 1
    /\ UNCHANGED <<sumDeltas, overridden, pinned, cfg, fxVars>>
    /\ UNCHANGED <<btVars, tlVars, evVars, rsVars>>

EfTickAll ==
    /\ ops < MaxEffectOps
    /\ LET A == tick_all(EfState(StActor), StActor, Base(StActor))
       IN  /\ Store(StActor, A)
           /\ efHist' = [efHist EXCEPT ![StActor] = HistTicked(@, effects[StActor], A.effects)]
           /\ obs' = [op |-> "tick_all", before |-> effects[StActor], trace |-> A.trace]
    /\ ops' = ops + 1
    /\ UNCHANGED <<sumDeltas, overridden, pinned, cfg, fxVars>>
    /\ UNCHANGED <<btVars, tlVars, evVars, rsVars>>


\* the effects given to apply whose modifiers name a stat that is not one of
\* STAT_NAMES: alone, after a known stat, and under a name that may be active
EuInputs ==
    {Effect("slow", 2, 1, <<[stat |-> "luck", amount |-> 5]>>, FALSE, FALSE),
     Effect("slow", 2, 1, <<[stat |-> "atk", amount |-> 20],
                            [stat |-> "luck", amount |-> 5]>>, FALSE, FALSE),
     Effect("buff_atk", 3, 2, <<[stat |-> "luck", amount |-> 5]>>, FALSE, FALSE)}

\* a modifier of the effect names a stat outside STAT_NAMES
UnknownStat(e) == \E k \in 1..Len(e.modifiers) : e.modifiers[k].stat \notin STAT_NAMES

\* EffectController.apply called with such an effect: the call raises where
\* apply_modifier raises, and the controller and the stats stay as the
\* statements before it left them
EuApply ==
    /\ ops < MaxEffectOps
    /\ \E e \in EuInputs :
          LET A == apply(EfState(StActor), StActor, Base(StActor), e)
              i == Find(effects[StActor], e.name)
          IN  /\ Store(StActor, A)
              /\ obs' = [op |-> "apply", effect |-> e, wasActive |-> i # 0,
                         prev |-> IF i # 0 THEN effects[StActor][i] ELSE e,
                         effectsBefore |-> effects[StActor],
                         bonusBefore |-> bonus[StActor], currentBefore |-> current[StActor],
                         raised |-> ~A.ok, trace |-> A.trace]
    /\ ops' = ops + 1
    /\ UNCHANGED <<efHist, sumDeltas, overridden, pinned, cfg, fxVars>>
    /\ UNCHANGED <<btVars, tlVars, evVars, rsVars>>


(***************************************************************************)
(* Resource pool (src/arena/resources.py)                                   *)
(***************************************************************************)

\* bound on the number of calls made on a resource pool exercised on its own
MaxResOps == 4

\* the costs, names, amounts and events those calls are made with
RsCosts ==
    {<<[name |-> "fury", cost |-> 2]>>,
     <<[name |-> "mana", cost |-> 3], [name |-> "fury", cost |-> 1]>>,
     <<[name |-> "stamina", cost |-> 1], [name |-> "rage", cost |-> 2]>>}
RsNames == {"fury", "mana", "rage", "stamina"}
RsAmounts == {-2, 3}
RsEvents == {ON_RECEIVE_DAMAGE, ON_TURN_START, ON_ATTACK}

\* Resource.clamp
clampLowerOnly(r) ==
    IF r.allow_overcap THEN r
    ELSE [r EXCEPT !.value = Max(0, r.value)]

clamp(r) ==
    IF r.allow_overcap THEN r
    ELSE [r EXCEPT !.value = Max(0, Min(r.value, r.maximum))]

\* self.resources.get(name): the position of the resource, 0 when absent
FindRes(pool, name) ==
    IF \E i \in 1..Len(pool) : pool[i].name = name
    THEN CHOOSE i \in 1..Len(pool) : pool[i].name = name
    ELSE 0

\* can_pay as pay looks a resource up: one the pool does not have is skipped
can_payMissingSkipped(pool, costs) ==
    \A k \in 1..Len(costs) :
        \/ FindRes(pool, costs[k].name) = 0
        \/ pool[FindRes(pool, costs[k].name)].value >= costs[k].cost

\* ResourcePool.can_pay
can_pay(pool, costs) ==
    \A k \in 1..Len(costs) :
        /\ FindRes(pool, costs[k].name) # 0
        /\ pool[FindRes(pool, costs[k].name)].value >= costs[k].cost

\* resource.value += amount; resource.clamp()
Gain(pool, name, amount) ==
    LET i == FindRes(pool, name)
    IN  IF i = 0 THEN pool
        ELSE [pool EXCEPT ![i] = clamp([@ EXCEPT !.value = @ + amount])]

\* ResourcePool.pay
RECURSIVE pay(_, _)
pay(pool, costs) ==
    IF costs = <<>> THEN pool
    ELSE pay(Gain(pool, costs[1].name, -costs[1].cost), Tail(costs))

\* on_turn_start with a clamp after the regen and another after the decay
on_turn_startClampTwice(pool) ==
    [i \in 1..Len(pool) |->
        clamp([clamp([pool[i] EXCEPT !.value = @ + pool[i].regen_per_turn])
                 EXCEPT !.value = @ - pool[i].decay_per_turn])]

\* ResourcePool.on_turn_start
on_turn_start(pool) ==
    [i \in 1..Len(pool) |->
        clamp([pool[i] EXCEPT !.value = @ + pool[i].regen_per_turn - pool[i].decay_per_turn])]

\* ResourcePool.add
add(pool, name, amount) == Gain(pool, name, amount)

\* the callback _make_gain_callback returns, as registered on a bus
GainCallback(owner, name, amount) == [owner |-> owner, resource |-> name, amount |-> amount]

\* EventManager.broadcast when the listeners are gain callbacks: each is called
\* in list order, whoever the source of the event is; res is every actor's pool
RECURSIVE RunListeners(_, _)
RunListeners(res, lst) ==
    IF lst = <<>> THEN res
    ELSE LET cb == lst[1].listener
         IN  RunListeners([res EXCEPT ![cb.owner] = Gain(@, cb.resource, cb.amount)], Tail(lst))

broadcast(res, bus, event) == RunListeners(res, listeners[bus][event])

\* the manager an actor is constructed with: the battle's when the driver passes
\* it to Combatant, a private one otherwise
BusOf(c, a) == IF c.shared THEN "battle" ELSE a

\* the (event, callback) pairs ResourcePool.__init__ registers, in order
RECURSIVE GainRegs(_, _, _)
GainRegs(a, name, gains) ==
    IF gains = <<>> THEN <<>>
    ELSE <<[event |-> gains[1].event, listener |-> GainCallback(a, name, gains[1].amount)]>>
         \o GainRegs(a, name, Tail(gains))

RECURSIVE PoolRegs(_, _)
PoolRegs(a, pool) ==
    IF pool = <<>> THEN <<>>
    ELSE GainRegs(a, pool[1].name, pool[1].gain_on_events) \o PoolRegs(a, Tail(pool))

\* the listeners of every bus once the actors of members are constructed, in order
RECURSIVE RegisterAll(_, _, _)
RegisterAll(ls, bus, regs) ==
    IF regs = <<>> THEN ls
    ELSE RegisterAll([ls EXCEPT ![bus][regs[1].event] = register(@, regs[1].listener, 0)],
                     bus, Tail(regs))

RECURSIVE Constructed(_, _, _)
Constructed(ls, c, members) ==
    IF members = <<>> THEN ls
    ELSE Constructed(RegisterAll(ls, BusOf(c, members[1]),
                                 PoolRegs(members[1], c.actors[members[1]].resources)),
                     c, Tail(members))

RsPay ==
    /\ ops < MaxResOps
    /\ \E costs \in RsCosts :
          /\ resources' = [resources EXCEPT ![StActor] = pay(@, costs)]
          /\ obs' = [op |-> "pay", costs |-> costs, before |-> resources[StActor],
                     affordable |-> can_pay(resources[StActor], costs)]
    /\ ops' = ops + 1
    /\ UNCHANGED <<cfg, fxVars>>
    /\ UNCHANGED <<btVars, tlVars, evVars, stVars, efVars>>

RsAdd ==
    /\ ops < MaxResOps
    /\ \E name \in RsNames, amount \in RsAmounts :
          /\ resources' = [resources EXCEPT ![StActor] = add(@, name, amount)]
          /\ obs' = [op |-> "add", name |-> name, amount |-> amount, before |-> resources[StActor]]
    /\ ops' = ops + 1
    /\ UNCHANGED <<cfg, fxVars>>
    /\ UNCHANGED <<btVars, tlVars, evVars, stVars, efVars>>

RsTurnStart ==
    /\ ops < MaxResOps
    /\ resources' = [resources EXCEPT ![StActor] = on_turn_start(@)]
    /\ obs' = [op |-> "on_turn_start", before |-> resources[StActor]]
    /\ ops' = ops + 1
    /\ UNCHANGED <<cfg, fxVars>>
    /\ UNCHANGED <<btVars, tlVars, evVars, stVars, efVars>>

\* an event is broadcast on the bus the pool registered its callbacks on
RsEvent ==
    /\ ops < MaxResOps
    /\ \E event \in RsEvents, source \in Cast(cfg) :
          /\ resources' = broadcast(resources, BusOf(cfg, StActor), event)
          /\ obs' = [op |-> "event", name |-> event, source |-> source,
                     before |-> resources[StActor]]
    /\ ops' = ops + 1
    /\ UNCHANGED <<cfg, fxVars>>
    /\ UNCHANGED <<btVars, tlVars, evVars, stVars, efVars>>


(***************************************************************************)
(* Combatants, teams, skills and the decision policy                        *)
(* (src/arena/combatant.py, skills.py, ai.py, actions.py, battle.py)        *)
(***************************************************************************)

None == "None"

\* the skills whose name contains "heal", resp. "buff", whatever the case
HealNamed == {"Heal Mage"}
BuffNamed == {"Buff Defensa", "Buff Ataque"}

SkillNames(a) == {cfg.actors[a].skills[k].name : k \in 1..Len(cfg.actors[a].skills)}

\* a call recorded in the trace where the code makes it
Call(name, user) == [kind |-> "call", name |-> name, source |-> user]

Traced(W, entry) == [W EXCEPT !.trace = Append(@, entry)]

\* the mutable state of the battle's actors as one value, with the trace of
\* what has been broadcast and the exception raised, if any
World ==
    [hp |-> hp, alive |-> alive, cooldowns |-> cooldowns, current |-> current, bonus |-> bonus,
     effects |-> effects, resources |-> resources, trace |-> <<>>, error |-> None,
     returned |-> 0]

Wget(W, a, name) == derived(W.current[a], W.bonus[a], name)

\* DynamicStats.get_resistance: current.resistances is the copy of what the
\* actor was built with, which nothing writes
get_resistance(W, a, damage_type) ==
    (IF damage_type \in DOMAIN cfg.actors[a].resistances
     THEN cfg.actors[a].resistances[damage_type] ELSE 0)
    + (IF damage_type \in DOMAIN resistance_bonus[a]
       THEN resistance_bonus[a][damage_type] ELSE 0)

\* a listener that strikes the source of the event again, unless the event is
\* the damage of its own strike
Curse == "curse"
StrikeAgain == [strikes |-> 1]

RECURSIVE apply_damage(_, _, _, _, _, _)

\* the loop of EventManager.broadcast over the snapshot lst of the listeners of
\* the event: a gain callback adds to its resource, whoever the source is
RECURSIVE RunOn(_, _, _, _, _)
RunOn(W, lst, name, source, data) ==
    IF lst = <<>> THEN W
    ELSE LET cb == lst[1].listener
             W1 == IF DOMAIN cb = DOMAIN StrikeAgain
                   THEN IF name = ON_RECEIVE_DAMAGE /\ data.attacker = Curse THEN W
                        ELSE apply_damage(W, source, cb.strikes, "true", Curse, FALSE)
                   ELSE IF DOMAIN cb = DOMAIN Bleed
                   THEN apply_damage(W, cb.victim, cb.strikes, "true", Curse, FALSE)
                   ELSE [W EXCEPT !.resources[cb.owner] = Gain(@, cb.resource, cb.amount)]
         IN  RunOn(W1, Tail(lst), name, source, data)

\* manager.broadcast(name, source=..., data=...): the event is traced, the listeners run
Emit(W, bus, name, source, data) ==
    RunOn([W EXCEPT !.trace = Append(@, [kind |-> "event", bus |-> bus, name |-> name,
                                         source |-> source, data |-> data])],
          listeners[bus][name], name, source, data)

\* the hooks and events of an effect controller call, broadcast on its manager
RECURSIVE EmitAll(_, _, _)
EmitAll(W, bus, tr) ==
    IF tr = <<>> THEN W
    ELSE IF tr[1].kind = "event"
         THEN EmitAll(Emit(W, bus, tr[1].name, tr[1].source, tr[1].data), bus, Tail(tr))
         ELSE EmitAll([W EXCEPT !.trace = Append(@, tr[1])], bus, Tail(tr))

EfStateOf(W, a) ==
    [effects |-> W.effects[a], bonus |-> W.bonus[a], current |-> W.current[a], ok |-> TRUE,
     trace |-> <<>>]

\* the result A of an effect controller call put back; the controller keeps the
\* manager its actor was constructed with
WithEffects(W, a, A) ==
    EmitAll([W EXCEPT !.effects[a] = A.effects, !.bonus[a] = A.bonus, !.current[a] = A.current,
                      !.error = IF A.ok THEN @ ELSE "ValueError"],
            BusOf(cfg, a), A.trace)

TeamOf(a) == IF a \in Range(cfg.team_a) THEN "a" ELSE "b"
TeamMembers(t) == IF t = "a" THEN cfg.team_a ELSE cfg.team_b

\* Team.alive_members
alive_members(W, t) == SelectSeq(TeamMembers(t), LAMBDA m : W.alive[m])

\* Team.is_defeated
is_defeated(al, t) == ~\E m \in Range(TeamMembers(t)) : al[m]

\* Team.handle_death: every living ally broadcasts the death on its own manager
RECURSIVE NotifyAllies(_, _, _)
NotifyAllies(W, allies, member) ==
    IF allies = <<>> THEN W
    ELSE NotifyAllies(Emit(W, event_manager[allies[1]], ON_ALLY_DEATH, member, <<>>),
                      Tail(allies), member)

handle_death(W, member) ==
    NotifyAllies(Traced(W, Call("handle_death", member)), alive_members(W, TeamOf(member)),
                 member)

\* Combatant.die without the early return for an actor that is not alive
dieUnguarded(W, a) ==
    handle_death(Emit([W EXCEPT !.alive[a] = FALSE], event_manager[a], ON_EXIT_BATTLE, a, <<>>), a)

\* Combatant.die
die(W, a) ==
    IF ~W.alive[a] THEN W
    ELSE handle_death(Emit([W EXCEPT !.alive[a] = FALSE], event_manager[a], ON_EXIT_BATTLE, a, <<>>), a)

\* Combatant.apply_damage without the early return for an actor that is not alive
apply_damageOnTheDead(W, a, amount, damage_type, source, is_critical) ==
    LET mitigation == 100 - get_resistance(W, a, damage_type)
        mitigated == Max((amount * mitigation) \div 100, 0)
        W1 == Emit([W EXCEPT !.hp[a] = @ - mitigated], event_manager[a], ON_RECEIVE_DAMAGE, a,
                   [amount |-> mitigated, type |-> damage_type, is_crit |-> is_critical,
                    attacker |-> source])
        W2 == IF W1.hp[a] <= 0 THEN die(W1, a) ELSE W1
    IN  [W2 EXCEPT !.returned = mitigated]

\* Combatant.apply_damage
apply_damage(W, a, amount, damage_type, source, is_critical) ==
    IF ~W.alive[a] THEN [W EXCEPT !.returned = 0]
    ELSE LET mitigation == 100 - get_resistance(W, a, damage_type)
             mitigated == Max((amount * mitigation) \div 100, 0)
             W1 == Emit([W EXCEPT !.hp[a] = @ - mitigated], event_manager[a], ON_RECEIVE_DAMAGE, a,
                        [amount |-> mitigated, type |-> damage_type, is_crit |-> is_critical,
                         attacker |-> source])
             W2 == IF W1.hp[a] <= 0 THEN die(W1, a) ELSE W1
         IN  [W2 EXCEPT !.returned = mitigated]

\* Combatant.heal
heal(W, a, amount, source) ==
    IF ~W.alive[a] \/ amount <= 0 THEN [W EXCEPT !.returned = 0]
    ELSE LET missing == Wget(W, a, "hp") - W.hp[a]
             healed == Min(amount, missing)
             W1 == Emit([W EXCEPT !.hp[a] = @ + healed], event_manager[a], ON_HEALED, a,
                        [amount |-> healed, healer |-> source])
         IN  [W1 EXCEPT !.returned = healed]

\* Combatant.available_skills
available_skillsIgnoringCost(W, a) ==
    SelectSeq(cfg.actors[a].skills, LAMBDA sk : W.cooldowns[a][sk.name] = 0)

available_skills(W, a) ==
    SelectSeq(cfg.actors[a].skills,
              LAMBDA sk : W.cooldowns[a][sk.name] = 0 /\ can_pay(W.resources[a], sk.costs))

\* Combatant.reduce_cooldowns
reduce_cooldowns(cd) == [n \in DOMAIN cd |-> IF cd[n] > 0 THEN cd[n] - 1 ELSE cd[n]]

\* Combatant.start_turn
start_turn(W, a) ==
    LET W1 == [W EXCEPT !.cooldowns[a] = reduce_cooldowns(@)]
        W2 == WithEffects(W1, a, tick_all(EfStateOf(W1, a), a, Base(a)))
        W3 == [W2 EXCEPT !.resources[a] = on_turn_start(@)]
    IN  Emit(W3, event_manager[a], ON_TURN_START, a, <<>>)

\* Combatant.end_turn
end_turn(W, a) == Emit(W, event_manager[a], ON_TURN_END, a, <<>>)

\* hp / max(get("hp"), 1) of x is below that of y
LowerFraction(W, x, y) ==
    W.hp[x] * Max(Wget(W, y, "hp"), 1) < W.hp[y] * Max(Wget(W, x, "hp"), 1)

\* BattleContext.pick_ally_to_heal: the first ally of lowest health fraction
pick_ally_to_heal(W, a) ==
    LET allies == alive_members(W, TeamOf(a))
    IN  IF allies = <<>> THEN None
        ELSE allies[CHOOSE i \in 1..Len(allies) :
                      /\ \A j \in 1..Len(allies) : ~LowerFraction(W, allies[j], allies[i])
                      /\ \A j \in 1..(i - 1) : LowerFraction(W, allies[i], allies[j])]

\* Battle.enemies_of followed by the alive filter of pick_enemy_target: the
\* actors random.choice picks from
EnemyTargets(W, a) == Range(alive_members(W, IF TeamOf(a) = "a" THEN "b" ELSE "a"))

\* the first skill of the highest power, as the stable sort leaves it in front
FirstStrongest(skills) ==
    skills[CHOOSE i \in 1..Len(skills) :
              /\ \A j \in 1..Len(skills) : skills[j].power <= skills[i].power
              /\ \A j \in 1..(i - 1) : skills[j].power < skills[i].power]

NoSkill == [SkillDefaults EXCEPT !.kind = "none"]

\* the decision policy falling back on the actor's first skill when none is
\* available, instead of raising
choose_actionNeverRaises(W, a, turn) ==
    LET available == available_skills(W, a)
        heal_skills == SelectSeq(available, LAMBDA sk : sk.name \in HealNamed)
        buff_skills == SelectSeq(available, LAMBDA sk : sk.name \in BuffNamed)
        damaging == SelectSeq(available, LAMBDA sk : sk.kind = "attack")
        ally == pick_ally_to_heal(W, a)
    IN  IF available = <<>> THEN cfg.actors[a].skills[1]
        ELSE IF /\ ally # None
                /\ W.hp[ally] * 10 < 4 * Wget(W, ally, "hp")
                /\ heal_skills # <<>>
             THEN heal_skills[1]
        ELSE IF buff_skills # <<>> /\ turn < 3 THEN buff_skills[1]
        ELSE IF damaging # <<>> THEN FirstStrongest(damaging)
        ELSE available[1]

\* AutonomousAI.choose_action: the chosen skill, NoSkill when it raises
choose_action(W, a, turn) ==
    LET available == available_skills(W, a)
        heal_skills == SelectSeq(available, LAMBDA sk : sk.name \in HealNamed)
        buff_skills == SelectSeq(available, LAMBDA sk : sk.name \in BuffNamed)
        damaging == SelectSeq(available, LAMBDA sk : sk.kind = "attack")
        ally == pick_ally_to_heal(W, a)
    IN  IF available = <<>> THEN NoSkill
        ELSE IF /\ ally # None
                /\ W.hp[ally] * 10 < 4 * Wget(W, ally, "hp")
                /\ heal_skills # <<>>
             THEN heal_skills[1]
        ELSE IF buff_skills # <<>> /\ turn < 3 THEN buff_skills[1]
        ELSE IF damaging # <<>> THEN FirstStrongest(damaging)
        ELSE available[1]

\* Battlefield.query_modifier, in hundredths
query_modifier(tag) ==
    LET having == SelectSeq(global_effects, LAMBDA e : tag \in DOMAIN e.modifiers)
        RECURSIVE Sum(_)
        Sum(es) == IF es = <<>> THEN 0 ELSE es[1].modifiers[tag] + Sum(Tail(es))
    IN  Sum(having)

\* the value BattleContext.compute_damage computes, as the fraction num / den,
\* with the defender's defense stat used against every damage type
damage_fractionDefenseOnly(W, attacker, defender, power, damage_type, tags, is_crit) ==
    LET base_stat == IF damage_type \in {"physical", "true"}
                     THEN Wget(W, attacker, "atk") ELSE Wget(W, attacker, "mag")
        defense == Wget(W, defender, "defense")
        floor == 100 + defense <= 0 \/ 100 + defense >= 1000
        mnum == IF floor THEN 1 ELSE 100
        mden == IF floor THEN 10 ELSE 100 + defense
        modifier == 100 + query_modifier(damage_type)
                    + 25 * Cardinality({k \in 1..Len(tags) : (tags[k] \o "_weak") \in cfg.actors[defender].tags})
                    - 25 * Cardinality({k \in 1..Len(tags) : (tags[k] \o "_resist") \in cfg.actors[defender].tags})
        crit == IF is_crit THEN Wget(W, attacker, "crit_damage") ELSE 100
    IN  [num |-> base_stat * power * mnum * modifier * crit, den |-> mden * 100 * 100]

\* the value BattleContext.compute_damage computes with the outcome of the
\* critical roll given, as the fraction num / den.  A defense of -100, at
\* which the code divides by zero, is a value no scenario gives a stat.
damage_fraction(W, attacker, defender, power, damage_type, tags, is_crit) ==
    LET base_stat == IF damage_type \in {"physical", "true"}
                     THEN Wget(W, attacker, "atk") ELSE Wget(W, attacker, "mag")
        defense == IF damage_type \in {"physical"}
                   THEN Wget(W, defender, "defense") ELSE Wget(W, defender, "resistance")
        \* mitigation = max(0.1, 100 / (100 + defense)) as mnum / mden
        floor == 100 + defense <= 0 \/ 100 + defense >= 1000
        mnum == IF floor THEN 1 ELSE 100
        mden == IF floor THEN 10 ELSE 100 + defense
        modifier == 100 + query_modifier(damage_type)
                    + 25 * Cardinality({k \in 1..Len(tags) : (tags[k] \o "_weak") \in cfg.actors[defender].tags})
                    - 25 * Cardinality({k \in 1..Len(tags) : (tags[k] \o "_resist") \in cfg.actors[defender].tags})
        crit == IF is_crit THEN Wget(W, attacker, "crit_damage") ELSE 100
    IN  [num |-> base_stat * power * mnum * modifier * crit, den |-> mden * 100 * 100]

\* BattleContext.compute_damage; health is counted in whole points, the
\* fraction is cut to one (exact for the battles of the scenarios)
compute_damage(W, attacker, defender, power, damage_type, tags, is_crit) ==
    LET f == damage_fraction(W, attacker, defender, power, damage_type, tags, is_crit)
    IN  f.num \div f.den

\* the outcomes random.random() < crit_chance can have
CritOutcomes(W, attacker) ==
    IF Wget(W, attacker, "crit_chance") <= 0 THEN {FALSE}
    ELSE IF Wget(W, attacker, "crit_chance") >= 100 THEN {TRUE}
    ELSE BOOLEAN

\* perform with the missing target of an attack not skipped: the attribute
\* access on None raises
performOnMissing(W, user, sk, target, is_crit) ==
    IF sk.kind = "attack"
    THEN IF target = None THEN [W EXCEPT !.error = "AttributeError"]
         ELSE LET damage == compute_damage(W, user, target, sk.power, sk.damage_type, sk.tags, is_crit)
                  W1 == apply_damage(W, target, damage, sk.damage_type, user, is_crit)
              IN  Emit(W1, event_manager[user], ON_ATTACK, user,
                       [amount |-> damage, type |-> sk.damage_type, targets |-> <<target>>])
    ELSE IF sk.kind = "heal"
    THEN IF target = None THEN W ELSE heal(W, target, sk.amount, user)
    ELSE WithEffects(W, target,
             apply(EfStateOf(W, target), target, Base(target),
                   Effect("buff_" \o sk.stat, sk.duration, 1,
                          <<[stat |-> sk.stat, amount |-> sk.amount]>>, FALSE, FALSE)))

\* SingleTargetAttack.perform, HealingSkill.perform, BuffSkill.perform
perform(W, user, sk, target, is_crit) ==
    IF sk.kind = "attack"
    THEN IF target = None THEN W
         ELSE LET damage == compute_damage(W, user, target, sk.power, sk.damage_type, sk.tags, is_crit)
                  W1 == apply_damage(W, target, damage, sk.damage_type, user, is_crit)
              IN  Emit(W1, event_manager[user], ON_ATTACK, user,
                       [amount |-> damage, type |-> sk.damage_type, targets |-> <<target>>])
    ELSE IF sk.kind = "heal"
    THEN IF target = None THEN W ELSE heal(W, target, sk.amount, user)
    ELSE WithEffects(W, target,
             apply(EfStateOf(W, target), target, Base(target),
                   Effect("buff_" \o sk.stat, sk.duration, 1,
                          <<[stat |-> sk.stat, amount |-> sk.amount]>>, FALSE, FALSE)))

\* Skill.execute with the payment made before the skill-used event is broadcast
executePayFirst(W, user, sk, target, is_crit) ==
    LET W1 == [Traced(W, Call("pay", user)) EXCEPT !.resources[user] = pay(@, sk.costs)]
        W2 == Emit(W1, event_manager[user], ON_USE_SKILL, user, [skill |-> sk.name])
        W3 == perform(Traced(W2, Call("perform", user)), user, sk, target, is_crit)
    IN  IF W3.error # None THEN W3
        ELSE [Traced(W3, Call("start_cooldown", user)) EXCEPT !.cooldowns[user][sk.name] = sk.cooldown]

\* Skill.execute, the targets already selected
execute(W, user, sk, target, is_crit) ==
    LET W1 == Emit(W, event_manager[user], ON_USE_SKILL, user, [skill |-> sk.name])
        W2 == [Traced(W1, Call("pay", user)) EXCEPT !.resources[user] = pay(@, sk.costs)]
        W3 == perform(Traced(W2, Call("perform", user)), user, sk, target, is_crit)
    IN  IF W3.error # None THEN W3
        ELSE [Traced(W3, Call("start_cooldown", user)) EXCEPT !.cooldowns[user][sk.name] = sk.cooldown]

\* the pool of user when Skill.execute reaches pay
PoolAtPay(W, user, sk) == Emit(W, event_manager[user], ON_USE_SKILL, user, [skill |-> sk.name]).resources[user]

\* select_targets: what the skill may be given as its one target
TargetChoices(W, user, sk) ==
    IF sk.kind = "attack"
    THEN IF EnemyTargets(W, user) = {} THEN {None} ELSE EnemyTargets(W, user)
    ELSE IF sk.kind = "heal" THEN {pick_ally_to_heal(W, user)}
    ELSE {user}


(***************************************************************************)
(* Battle (src/arena/battle.py)                                             *)
(***************************************************************************)

\* is_finished holding only when both teams are defeated
is_finishedBoth(al) == is_defeated(al, "a") /\ is_defeated(al, "b")

\* Battle.is_finished
is_finished(al) == is_defeated(al, "a") \/ is_defeated(al, "b")

\* the condition of the loop of Battle.run
LoopCondTurnIncluded == turn_number <= max_turns /\ ~is_finished(alive)

LoopCond == turn_number < max_turns /\ ~is_finished(alive)

\* FieldEffect is a dataclass: two effects are equal when their fields are;
\* id stands for the identity of the object and is no field
SameFields(x, y) ==
    /\ x.name = y.name
    /\ x.duration = y.duration
    /\ x.tags = y.tags
    /\ x.modifiers = y.modifiers
    /\ x.priority = y.priority

\* list.remove(x): the first element equal to x goes; 0 when there is none
FirstEqual(effs, x) ==
    IF \E k \in 1..Len(effs) : SameFields(effs[k], x)
    THEN CHOOSE k \in 1..Len(effs) :
            /\ SameFields(effs[k], x)
            /\ \A j \in 1..(k - 1) : ~SameFields(effs[j], x)
    ELSE 0

\* the object e of the snapshot as it is now: the list holds it, unless it was
\* removed, and then nothing has written it since
Object(effs, e) ==
    IF \E k \in 1..Len(effs) : effs[k].id = e.id
    THEN effs[CHOOSE k \in 1..Len(effs) : effs[k].id = e.id]
    ELSE e

\* the effects of the list with the object of identity id written
Written(effs, x) == [k \in 1..Len(effs) |-> IF effs[k].id = x.id THEN x ELSE effs[k]]

\* the events of the battlefield go out on the battle's manager; listed records
\* whether the effect is in the list when the event is broadcast
FieldEvent(F, name, e) ==
    Emit(F.W, "battle", name, None,
         [effect |-> e.name, listed |-> \E k \in 1..Len(F.effs) : F.effs[k].id = e.id])

\* the body of the loop of Battlefield.tick with an effect expiring only when
\* its duration goes below zero
TickFieldBelowZero(F, e) ==
    LET x == [Object(F.effs, e) EXCEPT !.duration = @ - 1]
        F1 == [W |-> FieldEvent(F, ON_FIELD_TICK, e), effs |-> Written(F.effs, x)]
    IN  IF x.duration < 0
        THEN LET W2 == FieldEvent(F1, ON_FIELD_EXPIRE, e)
                 k == FirstEqual(F1.effs, x)
             IN  IF k = 0 THEN [W |-> [W2 EXCEPT !.error = "ValueError"], effs |-> F1.effs]
                 ELSE [W |-> W2, effs |-> RemoveAt(F1.effs, k)]
        ELSE F1

\* the body of the loop of Battlefield.tick for the effect e of the snapshot
TickField(F, e) ==
    LET x == [Object(F.effs, e) EXCEPT !.duration = @ - 1]
        F1 == [W |-> FieldEvent(F, ON_FIELD_TICK, e), effs |-> Written(F.effs, x)]
    IN  IF x.duration <= 0
        THEN LET W2 == FieldEvent(F1, ON_FIELD_EXPIRE, e)
                 k == FirstEqual(F1.effs, x)
             IN  IF k = 0 THEN [W |-> [W2 EXCEPT !.error = "ValueError"], effs |-> F1.effs]
                 ELSE [W |-> W2, effs |-> RemoveAt(F1.effs, k)]
        ELSE F1

\* Battlefield.tick: the loop over the snapshot list(self.global_effects)
RECURSIVE FieldTick(_, _)
FieldTick(F, snapshot) ==
    IF snapshot = <<>> \/ F.W.error # None THEN F
    ELSE FieldTick(TickField(F, snapshot[1]), Tail(snapshot))

\* Battlefield.add_effect: append, stable sort by descending priority, on_apply
add_effect(F, e) ==
    LET effs == SortDesc(Append(F.effs, e))
    IN  [W |-> FieldEvent([W |-> F.W, effs |-> effs], ON_FIELD_APPLY, e), effs |-> effs]

battlefield_tick(W) == FieldTick([W |-> W, effs |-> global_effects], global_effects)

\* the exit events and handle_death calls of a trace added to the counts
Tally(ex, tr) ==
    [a \in DOMAIN ex |->
        [events |-> ex[a].events
                    + Cardinality({i \in 1..Len(tr) : /\ tr[i].kind = "event"
                                                       /\ tr[i].name = ON_EXIT_BATTLE
                                                       /\ tr[i].source = a}),
         notified |-> ex[a].notified
                      + Cardinality({i \in 1..Len(tr) : /\ tr[i].kind = "call"
                                                         /\ tr[i].name = "handle_death"
                                                         /\ tr[i].source = a})]]

Commit(W) ==
    /\ hp' = W.hp
    /\ alive' = W.alive
    /\ cooldowns' = W.cooldowns
    /\ current' = W.current
    /\ bonus' = W.bonus
    /\ effects' = W.effects
    /\ resources' = W.resources
    /\ exits' = Tally(exits, W.trace)

\* the loop of Battle.__init__ putting only the first member on the timeline
EnterAllFirstOnly(B, members) ==
    IF members = <<>> THEN B
    ELSE LET m == members[1]
         IN  [W |-> Emit(B.W, "battle", ON_ENTER_BATTLE, m, <<>>),
              queue |-> add_combatant(B.queue, B.counter, m, Wget(B.W, m, "speed"), 0),
              counter |-> B.counter + 1,
              addOrder |-> Append(B.addOrder, B.counter)]

\* the loop of Battle.__init__ over team_a.members + team_b.members
RECURSIVE EnterAll(_, _)
EnterAll(B, members) ==
    IF members = <<>> THEN B
    ELSE LET m == members[1]
         IN  EnterAll([W |-> Emit(B.W, "battle", ON_ENTER_BATTLE, m, <<>>),
                       queue |-> add_combatant(B.queue, B.counter, m, Wget(B.W, m, "speed"), 0),
                       counter |-> B.counter + 1,
                       addOrder |-> Append(B.addOrder, B.counter)],
                      Tail(members))

\* Battle.__init__
BattleNew ==
    /\ pc = "new"
    /\ LET B == EnterAll([W |-> World, queue |-> <<>>, counter |-> 0, addOrder |-> addOrder],
                         Members(cfg))
       IN  /\ Commit(B.W)
           /\ queue' = B.queue
           /\ counter' = B.counter
           /\ addOrder' = B.addOrder
           /\ obs' = [op |-> "new", trace |-> B.W.trace]
    /\ event_manager' = [a \in Cast(cfg) |-> "battle"]
    /\ turn_number' = 0
    /\ time' = 0
    /\ global_effects' = <<>>
    /\ pc' = "running"
    /\ UNCHANGED <<max_turns, sinceUse, endEvents, efHist, sumDeltas, overridden, pinned, cfg, fxVars, ops>>
    /\ UNCHANGED evVars

\* history: the counts of an actor's skills once it has started one more turn
Started(su) == [n \in DOMAIN su |-> IF su[n] >= 0 THEN su[n] + 1 ELSE su[n]]

\* history: the counts after the turn, in which the skill named used, if there
\* is one, reached start_cooldown
Used(su, used) == [n \in DOMAIN su |-> IF n = used THEN 0 ELSE Started(su)[n]]

\* one pass of the loop of Battle.run for a living actor: the whole turn.  The
\* loop is only entered with a living actor on each side, and each has an
\* entry, so pop_next finds one.  Each stage of the turn is bound to its value
\* once: W1 after start_turn, W2 after the action, W3 after end_turn, F after
\* the broadcast of the action event and the battlefield tick.
RunTurn ==
    /\ pc = "running"
    /\ LoopCond
    /\ queue # <<>>
    /\ \E r \in {HeapPop(queue)} :
       \E W1 \in {start_turn(World, r[1].combatant)} :
       \E sk \in {choose_action(W1, r[1].combatant, turn_number + 1)} :
       LET current_time == r[1].ready_at
           a == r[1].combatant
       IN  /\ alive[a]
           /\ time' = current_time
           /\ turn_number' = turn_number + 1
           /\ IF sk = NoSkill
              THEN \* choose_action raises RuntimeError and run with it
                   /\ Commit(W1)
                   /\ queue' = r[2]
                   /\ pc' = "error"
                   /\ obs' = [op |-> "turn", actor |-> a, error |-> "RuntimeError",
                              available |-> {available_skills(W1, a)[k].name :
                                                k \in 1..Len(available_skills(W1, a))},
                              offered |-> [k \in 1..Len(available_skills(W1, a)) |->
                                              available_skills(W1, a)[k].name],
                              cooldowns |-> W1.cooldowns[a], pool |-> W1.resources[a],
                              since |-> Started(sinceUse[a]),
                              before |-> [turn_number |-> turn_number, time |-> time,
                                          queue |-> queue],
                              trace |-> W1.trace]
                   /\ sinceUse' = [sinceUse EXCEPT ![a] = Started(@)]
                   /\ UNCHANGED <<counter, addOrder, global_effects>>
              ELSE \E target \in TargetChoices(W1, a, sk),
                      is_crit \in (IF sk.kind = "attack" THEN CritOutcomes(W1, a) ELSE {FALSE}) :
                      /\ (target = None => ~is_crit)
                      /\ \E W2 \in {IF W1.alive[a] THEN execute(W1, a, sk, target, is_crit) ELSE W1} :
                         \E W3 \in {end_turn(W2, a)} :
                         \E F \in {battlefield_tick(
                                      Emit(W3, "battle",
                                           IF TeamOf(a) = "b" THEN ON_ENEMY_ACTION ELSE ON_ALLY_ACTION,
                                           a, <<>>))} :
                         \E avail \in {available_skills(W1, a)} :
                             /\ Commit(F.W)
                             /\ global_effects' = F.effs
                             /\ queue' = add_combatant(r[2], counter, a, Wget(W3, a, "speed"),
                                                       current_time)
                             /\ counter' = counter + 1
                             /\ addOrder' = Append(addOrder, counter)
                             /\ pc' = IF W2.error # None THEN "error" ELSE "running"
                             /\ sinceUse' = [sinceUse EXCEPT ![a] =
                                                 IF W1.alive[a] /\ W2.error = None
                                                 THEN Used(@, sk.name) ELSE Started(@)]
                             /\ obs' = [op |-> "turn", actor |-> a, error |-> W2.error,
                                        since |-> Started(sinceUse[a]),
                                        available |-> {avail[k].name : k \in 1..Len(avail)},
                                        offered |-> [k \in 1..Len(avail) |-> avail[k].name],
                                        cooldowns |-> W1.cooldowns[a],
                                        pool |-> W1.resources[a],
                                        before |-> [turn_number |-> turn_number, time |-> time,
                                                    queue |-> queue],
                                        skill |-> sk, target |-> target, is_crit |-> is_crit,
                                        cooldown |-> W1.cooldowns[a][sk.name],
                                        executed |-> W1.alive[a],
                                        hpAtAction |-> W1.hp,
                                        poolAtPay |-> PoolAtPay(W1, a, sk),
                                        poolAfterPay |-> pay(PoolAtPay(W1, a, sk), sk.costs),
                                        trace |-> F.W.trace]
    /\ UNCHANGED <<event_manager, max_turns, endEvents, efHist, sumDeltas, overridden, pinned, cfg, fxVars, ops>>
    /\ UNCHANGED evVars

\* the pass for a dead actor's entry, counted as a turn
RunDiscardCountsTurn ==
    /\ pc = "running"
    /\ LoopCond
    /\ queue # <<>>
    /\ LET r == HeapPop(queue)
       IN  /\ ~alive[r[1].combatant]
           /\ queue' = r[2]
           /\ obs' = [op |-> "discard", actor |-> r[1].combatant, before |-> queue]
    /\ turn_number' = turn_number + 1
    /\ UNCHANGED <<counter, addOrder>>
    /\ UNCHANGED <<hp, alive, cooldowns, event_manager, global_effects, time, max_turns, sinceUse, pc,
                   endEvents, exits>>
    /\ UNCHANGED <<stVars, efVars, rsVars, evVars, cfg, fxVars, ops>>

\* one pass of the loop for an entry whose actor is dead: continue
RunDiscard ==
    /\ pc = "running"
    /\ LoopCond
    /\ queue # <<>>
    /\ LET r == HeapPop(queue)
       IN  /\ ~alive[r[1].combatant]
           /\ queue' = r[2]
           /\ obs' = [op |-> "discard", actor |-> r[1].combatant, before |-> queue]
    /\ UNCHANGED <<counter, addOrder>>
    /\ UNCHANGED <<btVars, stVars, efVars, rsVars, evVars, cfg, fxVars, ops>>

\* the loop is left: battle_end is broadcast and run returns
RunEnd ==
    /\ pc = "running"
    /\ ~LoopCond
    /\ Commit(Emit(World, "battle", BATTLE_END, None, [turns |-> turn_number]))
    /\ endEvents' = Append(endEvents, [turns |-> turn_number])
    /\ pc' = "done"
    /\ obs' = [op |-> "end", turns |-> turn_number]
    /\ UNCHANGED <<event_manager, global_effects, turn_number, time, max_turns, sinceUse>>
    /\ UNCHANGED <<tlVars, evVars, efHist, sumDeltas, overridden, pinned, cfg, fxVars, ops>>


\* C18: on_turn_start adds regen, then subtracts decay, then clamps once, for
\* every resource: a resource without overcap ends at
\* min(maximum, max(0, value + regen - decay)), one with overcap at
\* value + regen - decay; maximum 100, value 90, regen 20 gives 100.
C18_RegenDecayThenClamp ==
    obs.op = "on_turn_start" =>
        /\ Len(resources[StActor]) = Len(obs.before)
        /\ \A i \in 1..Len(obs.before) :
              LET b == obs.before[i]
                  raw == b.value + b.regen_per_turn - b.decay_per_turn
              IN  /\ resources[StActor][i].value
                        = (IF b.allow_overcap THEN raw ELSE Min(b.maximum, Max(0, raw)))
                  /\ [resources[StActor][i] EXCEPT !.value = b.value] = b

\* on_turn_start has taken the resource of maximum 100 from 90 to 100 with its
\* regen of 20, and has left at its maximum a resource that was full and has
\* both a regen and a decay
C18_Witness ==
    /\ obs.op = "on_turn_start"
    /\ \E i \in 1..Len(obs.before) :
          /\ obs.before[i].maximum = 100
          /\ obs.before[i].value = 90
          /\ obs.before[i].regen_per_turn = 20
          /\ resources[StActor][i].value = 100
    /\ \E i \in 1..Len(obs.before) :
          /\ obs.before[i].value = obs.before[i].maximum
          /\ obs.before[i].regen_per_turn > 0
          /\ obs.before[i].decay_per_turn > 0
          /\ ~obs.before[i].allow_overcap
          /\ resources[StActor][i].value = obs.before[i].maximum


\* C19: an event-triggered gain is applied only when the event fires for the
\* pool's owner: a broadcast, on the bus the pool registered on, of an event
\* whose source is another actor leaves the owner's resources unchanged.
C19_GainOnlyForOwner ==
    (obs.op = "event" /\ obs.source # StActor) => resources[StActor] = obs.before

\* the part of C19 the code keeps: an event no resource of the pool has a rule
\* for changes nothing
NoRuleNoGain ==
    (obs.op = "event"
        /\ \A i \in 1..Len(obs.before) : \A k \in 1..Len(obs.before[i].gain_on_events) :
               obs.before[i].gain_on_events[k].event # obs.name)
        => resources[StActor] = obs.before


(***************************************************************************)
(* The battlefield exercised on its own: any sequence of add_effect and     *)
(* tick calls                                                               *)
(***************************************************************************)

MaxFieldOps == 4

\* FieldEffect(name, duration, tags, modifiers, priority)
FieldEffect(name, duration, modifiers, priority) ==
    [name |-> name, duration |-> duration, tags |-> <<>>, modifiers |-> modifiers,
     priority |-> priority]

\* the effects add_effect is called with; modifiers in hundredths
BfInputs ==
    {FieldEffect("storm", d, ("fire" :> 25), 0) : d \in {1, 2}}
    \cup {FieldEffect("fog", 3, ("fire" :> -10) @@ ("ice" :> 10), 1),
          FieldEffect("mist", 0, <<>>, 0)}

BfTags == {"fire", "ice", "arcane"}

BfAddEffect ==
    /\ ops < MaxFieldOps
    /\ \E input \in BfInputs :
          LET e == input @@ [id |-> Len(fieldHist.added) + 1]
              F == add_effect([W |-> World, effs |-> global_effects], e)
          IN  /\ global_effects' = F.effs
              /\ fieldHist' = [fieldHist EXCEPT !.added = Append(@, e @@ [at |-> fieldHist.ticks])]
              /\ obs' = [op |-> "add_effect", effect |-> e, before |-> global_effects,
                         trace |-> F.W.trace]
    /\ ops' = ops + 1
    /\ UNCHANGED <<hp, alive, cooldowns, event_manager, turn_number, time, max_turns, sinceUse, pc,
                   endEvents, exits, damage_types, resistance_bonus, cfg>>
    /\ UNCHANGED <<tlVars, evVars, stVars, efVars, rsVars>>

BfTick ==
    /\ ops < MaxFieldOps
    /\ LET F == battlefield_tick(World)
       IN  /\ global_effects' = F.effs
           /\ obs' = [op |-> "tick", before |-> global_effects, trace |-> F.W.trace,
                      error |-> F.W.error]
    /\ fieldHist' = [fieldHist EXCEPT !.ticks = @ + 1]
    /\ ops' = ops + 1
    /\ UNCHANGED <<hp, alive, cooldowns, event_manager, turn_number, time, max_turns, sinceUse, pc,
                   endEvents, exits, damage_types, resistance_bonus, cfg>>
    /\ UNCHANGED <<tlVars, evVars, stVars, efVars, rsVars>>


(***************************************************************************)
(* Health exercised on its own: heal and apply_damage on an actor whose     *)
(* maximum health is raised by an effect that is later removed              *)
(***************************************************************************)

MaxHealthOps == 4

HlAmounts == {-1, 0, 2, 20}
HlDamages == {3, 9}
Patient == "a1"

\* an effect that raises the maximum health
BuffHp == Effect("buff_hp", 3, 1, <<[stat |-> "hp", amount |-> 4]>>, FALSE, FALSE)

HlObs(op, W) ==
    [op |-> op, actor |-> Patient, hp |-> hp[Patient], max |-> get(Patient, "hp"),
     alive |-> alive[Patient], returned |-> W.returned, trace |-> W.trace]

HlUnchanged ==
    /\ UNCHANGED <<event_manager, global_effects, turn_number, time, max_turns, sinceUse, pc, endEvents>>
    /\ UNCHANGED <<tlVars, evVars, efHist, sumDeltas, overridden, pinned, cfg, fxVars>>

\* Combatant.apply_effect
HlApplyEffect ==
    /\ ops < MaxHealthOps
    /\ LET W == WithEffects(World, Patient,
                            apply(EfStateOf(World, Patient), Patient, Base(Patient), BuffHp))
       IN  /\ Commit(W)
           /\ obs' = HlObs("apply_effect", W)
    /\ ops' = ops + 1
    /\ HlUnchanged

\* Combatant.remove_effect
HlRemoveEffect ==
    /\ ops < MaxHealthOps
    /\ LET W == WithEffects(World, Patient,
                            remove_effect(EfStateOf(World, Patient), Patient, Base(Patient),
                                          BuffHp.name))
       IN  /\ Commit(W)
           /\ obs' = HlObs("remove_effect", W)
    /\ ops' = ops + 1
    /\ HlUnchanged

\* Combatant.heal
HlHeal ==
    /\ ops < MaxHealthOps
    /\ \E amount \in HlAmounts :
          LET W == heal(World, Patient, amount, None)
          IN  /\ Commit(W)
              /\ obs' = HlObs("heal", W) @@ [amount |-> amount]
    /\ ops' = ops + 1
    /\ HlUnchanged

\* Combatant.apply_damage
HlDamage ==
    /\ ops < MaxHealthOps
    /\ \E amount \in HlDamages :
          LET W == apply_damage(World, Patient, amount, "physical", None, FALSE)
          IN  /\ Commit(W)
              /\ obs' = HlObs("apply_damage", W) @@ [amount |-> amount]
    /\ ops' = ops + 1
    /\ HlUnchanged


(***************************************************************************)
(* The damage formula exercised on its own: attacks of every kind by one    *)
(* attacker on two defenders, under the field effects of the battlefield     *)
(***************************************************************************)

MaxStrikes == 3

\* the attacks struck with
CdSkills ==
    {Attack("Golpe", 1, 0, <<>>),
     [Attack("Llama", 2, 0, <<>>) EXCEPT !.damage_type = "fire", !.tags = <<"fire">>],
     [Attack("Rayo", 1, 0, <<>>) EXCEPT !.damage_type = "arcane", !.tags = <<"arcane", "fire">>],
     [Attack("Verdad", 1, 0, <<>>) EXCEPT !.damage_type = "true"]}

Striker == "b1"

\* SingleTargetAttack.perform on a target of the striker's enemies
CdStrike ==
    /\ ops < MaxStrikes
    /\ \E sk \in CdSkills, target \in EnemyTargets(World, Striker),
          is_crit \in CritOutcomes(World, Striker) :
       \E W \in {perform(World, Striker, sk, target, is_crit)} :
          /\ Commit(W)
          /\ obs' = [op |-> "strike", attacker |-> Striker, target |-> target, skill |-> sk,
                     is_crit |-> is_crit, hpBefore |-> hp[target],
                     fraction |-> damage_fraction(World, Striker, target, sk.power,
                                                  sk.damage_type, sk.tags, is_crit),
                     damage |-> compute_damage(World, Striker, target, sk.power,
                                               sk.damage_type, sk.tags, is_crit),
                     trace |-> W.trace]
    /\ ops' = ops + 1
    /\ UNCHANGED <<event_manager, global_effects, turn_number, time, max_turns, sinceUse, pc, endEvents>>
    /\ UNCHANGED <<tlVars, evVars, efHist, sumDeltas, overridden, pinned, cfg, fxVars>>


(***************************************************************************)
(* Damage and death exercised on their own: any sequence of apply_damage    *)
(* and die calls on the actors of two teams, with a listener that strikes   *)
(* again registered, or not, on the damage-received and the exit event      *)
(***************************************************************************)

\* bound on the number of apply_damage and die calls
MaxDamageOps == 3

\* the amounts and damage types apply_damage is called with, and its caller
DmAmounts == {-2, 2, 4}
DmTypes == {"physical", "arcane", "ice"}
Hero == "hero"

\* manager.register(event, strike_again) on the bus the actors broadcast on
DmRegister ==
    /\ \E ev \in {ON_RECEIVE_DAMAGE, ON_EXIT_BATTLE} :
          /\ \A i \in 1..Len(listeners["battle"][ev]) :
                listeners["battle"][ev][i].listener # StrikeAgain
          /\ listeners' = [listeners EXCEPT !["battle"][ev] = register(@, StrikeAgain, 0)]
          /\ obs' = [op |-> "register", event |-> ev]
    /\ UNCHANGED <<regOrder, stack, evCalls>>
    /\ UNCHANGED <<tlVars, stVars, efVars, rsVars, cmVars>>

\* what a call on actor a found and left
DmObs(op, a, W) ==
    [op |-> op, actor |-> a, returned |-> W.returned, trace |-> W.trace,
     before |-> [hp |-> hp, alive |-> alive, resources |-> resources, exits |-> exits]]

\* target.apply_damage(amount, damage_type, source=hero)
DmApplyDamage ==
    /\ ops < MaxDamageOps
    /\ \E a \in Cast(cfg), amount \in DmAmounts, damage_type \in DmTypes :
       \E W \in {apply_damage(World, a, amount, damage_type, Hero, FALSE)} :
          /\ Commit(W)
          /\ obs' = DmObs("apply_damage", a, W) @@ [amount |-> amount, type |-> damage_type]
    /\ ops' = ops + 1
    /\ UNCHANGED <<event_manager, global_effects, turn_number, time, max_turns, sinceUse, pc, endEvents>>
    /\ UNCHANGED <<tlVars, evVars, efHist, sumDeltas, overridden, pinned, cfg, fxVars>>

\* target.die()
DmDie ==
    /\ ops < MaxDamageOps
    /\ \E a \in Cast(cfg) :
       \E W \in {die(World, a)} :
          /\ Commit(W)
          /\ obs' = DmObs("die", a, W)
    /\ ops' = ops + 1
    /\ UNCHANGED <<event_manager, global_effects, turn_number, time, max_turns, sinceUse, pc, endEvents>>
    /\ UNCHANGED <<tlVars, evVars, efHist, sumDeltas, overridden, pinned, cfg, fxVars>>


(***************************************************************************)
(* Properties of the timeline                                               *)
(***************************************************************************)

AddedBefore(c1, c2) ==
    \E i, j \in 1..Len(addOrder) : i < j /\ addOrder[i] = c1 /\ addOrder[j] = c2

\* C2: pop_next returns the entry with the smallest readiness time and, among
\* the entries of equal readiness, the one added first; the counter handed to
\* each add is larger than every counter handed out before (never reset,
\* never reused) and the next one will be larger still.
C2_PopSmallestFirstAdded ==
    /\ \A i, j \in 1..Len(addOrder) : i < j => addOrder[i] < addOrder[j]
    /\ \A i \in 1..Len(addOrder) : addOrder[i] < counter
    /\ obs.op = "pop" =>
          \A x \in Range(obs.before) :
             \/ x.ready_at > obs.entry.ready_at
             \/ x.ready_at = obs.entry.ready_at /\ ~AddedBefore(x.counter, obs.entry.counter)

\* a pop that had to break a tie and also had a later entry to pass over
C2_Witness ==
    /\ obs.op = "pop"
    /\ Len(obs.before) >= 3
    /\ \E x \in Range(obs.before) : x # obs.entry /\ x.ready_at = obs.entry.ready_at
    /\ \E x \in Range(obs.before) : x.ready_at > obs.entry.ready_at
    /\ obs.before[1] = obs.entry

(***************************************************************************)
(* Properties of the event bus                                              *)
(***************************************************************************)

WithPriority(lst, p) == SelectSeq(lst, LAMBDA e : e.priority = p)

\* C3: a broadcast calls the registered listeners in descending priority, and
\* the listeners of one priority in the order in which they were registered.
C3_PriorityThenRegistrationOrder ==
    obs.op = "broadcast_done" =>
        /\ \A i, j \in 1..Len(obs.invoked) :
               i < j => obs.invoked[i].priority >= obs.invoked[j].priority
        /\ \A p \in EvPriorities :
               WithPriority(obs.invoked, p) = WithPriority(obs.regAtStart, p)

\* a broadcast over three registrations, two of one priority, registered in an
\* order that is not the order of the calls
C3_Witness ==
    /\ obs.op = "broadcast_done"
    /\ Len(obs.invoked) = 3
    /\ obs.invoked # obs.regAtStart
    /\ \E i, j \in 1..Len(obs.invoked) :
          /\ i < j
          /\ obs.invoked[i].priority = obs.invoked[j].priority
          /\ obs.invoked[i].listener # obs.invoked[j].listener

\* C4: the listeners a broadcast calls, and their order, are those registered
\* for the event when the broadcast started, whatever its listeners register
\* or unregister while it runs.
C4_SnapshotAtBroadcastStart ==
    /\ \A k \in 1..Len(stack) :
          /\ Len(stack[k].invoked) <= Len(stack[k].liveAtStart)
          /\ stack[k].invoked = SubSeq(stack[k].liveAtStart, 1, Len(stack[k].invoked))
    /\ obs.op = "broadcast_done" => obs.invoked = obs.liveAtStart

\* a broadcast that ended with the list of its event changed under it
C4_Witness ==
    /\ obs.op = "broadcast_done"
    /\ obs.changed
    /\ Len(obs.invoked) >= 2
    /\ Len(obs.liveAtEnd) # Len(obs.liveAtStart)


(***************************************************************************)
(* Properties of the stat model                                             *)
(***************************************************************************)

\* C5: as long as no override has been set, get(stat) is the base value of the
\* stat plus the sum of the deltas given to apply_modifier for that stat.
C5_DerivedIsBasePlusDeltas ==
    (\A name \in STAT_NAMES : ~overridden[StActor][name]) =>
        \A name \in STAT_NAMES :
            get(StActor, name) = Base(StActor)[name] + sumDeltas[StActor][name]


\* C16: after set_override(stat, v), get(stat) returns v whatever the bonus of
\* the stat is, and keeps returning v through later apply_modifier calls until
\* refresh() is called.
C16_OverrideHoldsUntilRefresh ==
    \A name \in STAT_NAMES :
        pinned[StActor][name].set => get(StActor, name) = pinned[StActor][name].value

\* the part of C16 the code keeps: right after set_override(stat, v) on a stat
\* with no bonus, get(stat) returns v
OverrideWithoutBonus ==
    (obs.op = "set_override" /\ ~obs.raised /\ bonus[StActor][obs.stat] = 0)
        => get(StActor, obs.stat) = obs.value


\* a call of apply_modifier or set_override with a name outside STAT_NAMES
\* raises and leaves every bonus and every stat value as it was
InvalidNameChangesNothing ==
    (obs'.op \in {"apply_modifier", "set_override"} /\ obs'.stat \notin STAT_NAMES)
        => /\ obs'.raised
           /\ bonus' = bonus
           /\ current' = current
           /\ \A name \in STAT_NAMES : get(StActor, name)' = get(StActor, name)

\* C17: apply_modifier and set_override called with a name outside the
\* recognized stat vocabulary fail with an invalid-stat error and leave every
\* bonus and every derived stat value unchanged.
C17_InvalidNameRejected == [][InvalidNameChangesNothing]_vars

\* a call with an unknown name has raised on a stat model that holds a bonus
\* and an override
C17_Witness ==
    /\ obs.op \in {"apply_modifier", "set_override"}
    /\ obs.stat \notin STAT_NAMES
    /\ obs.raised
    /\ \E name \in STAT_NAMES : bonus[StActor][name] # 0
    /\ \E name \in STAT_NAMES : pinned[StActor][name].set


\* the actor of another battle: it is built on its own, with its own manager,
\* and no call is ever made on it
Bystander == "b1"

\* C21: two battle instances share no mutable state: whatever is called on the
\* actors of one battle, apply_resistance_modifier with a damage type not seen
\* before included, every observable of an actor of another battle stays as
\* it was, the key set and the values of as_dict() included.
C21_NoSharedMutableState ==
    [][/\ as_dict(Bystander)' = as_dict(Bystander)
       /\ hp'[Bystander] = hp[Bystander]
       /\ resources'[Bystander] = resources[Bystander]
       /\ effects'[Bystander] = effects[Bystander]]_vars

\* what the code keeps: the value of every key the bystander's as_dict() had
ValuesOfBystanderKept ==
    [][\A k \in DOMAIN as_dict(Bystander) :
           k \in DOMAIN as_dict(Bystander)' /\ as_dict(Bystander)'[k] = as_dict(Bystander)[k]]_vars


\* the entry pushed by the add_combatant or schedule_next call just made: the
\* one that carries the counter the call handed out
Pushed == CHOOSE e \in Range(queue) : e.counter = counter - 1

Scheduled == obs.op \in {"add_combatant", "schedule_next"}

\* C22: add(actor, t) and schedule_next(actor, t) make the actor ready at
\* t + max(1, 100 / max(speed, 1)) with speed the actor's derived speed, its
\* base speed plus the sum of its speed bonuses; never less than 1 after t.
C22_ReadinessFromDerivedSpeed ==
    Scheduled =>
        /\ Pushed.combatant = obs.combatant
        /\ Pushed.ready_at = obs.current_time
                + Interval(Base(obs.combatant).speed + sumDeltas[obs.combatant]["speed"])
        /\ Pushed.ready_at >= obs.current_time + 1

\* what the code keeps: no actor is ready less than 1 after t, and while no
\* speed modifier is in force the speeds 100 and 50 give 1 and 2
NeverSoonerThanOne ==
    Scheduled =>
        /\ Pushed.ready_at >= obs.current_time + 1
        /\ bonus[obs.combatant]["speed"] = 0 =>
               Pushed.ready_at = obs.current_time + Interval(Base(obs.combatant).speed)


(***************************************************************************)
(* Properties of the effect controller                                      *)
(***************************************************************************)

Entry(a, name) == effects[a][Find(effects[a], name)]

C7_RemoveReversesContribution ==
    obs.op = "remove_effect" =>
        IF obs.present
        THEN /\ obs.name \notin Names(effects[StActor])
             /\ \A stat \in STAT_NAMES :
                    bonus[StActor][stat] = obs.bonusBefore[stat] - obs.contrib[stat]
        ELSE /\ effects[StActor] = obs.effectsBefore
             /\ bonus[StActor] = obs.bonusBefore
             /\ obs.trace = <<>>

TraceNames(tr, kind) ==
    LET sel == SelectSeq(tr, LAMBDA x : x.kind = kind)
    IN  [k \in 1..Len(sel) |-> sel[k].name]

NamesOf(effs) == [k \in 1..Len(effs) |-> effs[k].name]

\* C8: tick_all calls the per-tick hook of every effect that was active when it
\* was entered and takes one off its duration; the effects whose duration
\* thereby reaches zero or less are removed, the on-expire hook being called
\* right before the removal, all others stay; an effect applied once with
\* duration d > 0 is still active after fewer than d ticks, with d minus the
\* number of ticks left, and is gone after the d-th.
C8_TickAllExpiresAtZero ==
    /\ obs.op = "tick_all" =>
          /\ TraceNames(obs.trace, "on_tick")
                 = NamesOf(SelectSeq(obs.before, LAMBDA e : e.on_tick))
          /\ \A i \in 1..Len(obs.before) :
                LET e == obs.before[i]
                IN  IF e.duration - 1 <= 0
                    THEN /\ e.name \notin Names(effects[StActor])
                         /\ \E k \in 1..Len(obs.trace) :
                               /\ obs.trace[k] = Event(ON_REMOVE_EFFECT, StActor, [effect |-> e.name])
                               /\ e.on_expire => k > 1 /\ obs.trace[k - 1] = Hook("on_expire", e.name)
                    ELSE /\ e.name \in Names(effects[StActor])
                         /\ Entry(StActor, e.name) = [e EXCEPT !.duration = @ - 1]
    /\ \A name \in Names(effects[StActor]) :
          LET h == efHist[StActor][name]
          IN  (h.apps = 1 /\ h.d0 > 0) =>
                  /\ h.ticks < h.d0
                  /\ Entry(StActor, name).duration = h.d0 - h.ticks

\* a tick over two effects: one expires with its hooks called, the other stays
C8_Witness ==
    /\ obs.op = "tick_all"
    /\ Len(obs.before) = 2
    /\ Len(effects[StActor]) = 1
    /\ \E i \in 1..Len(obs.before) :
          obs.before[i].duration = 1 /\ obs.before[i].on_tick /\ obs.before[i].on_expire
    /\ efHist[StActor][effects[StActor][1].name].ticks = 1


(***************************************************************************)
(* Properties of the resource pool                                          *)
(***************************************************************************)

\* C9: the value of every resource that does not allow overcap lies between 0
\* and its maximum after any sequence of pay, add, on_turn_start and event gains
\* (the scenarios start every value inside that range).
C9_ValueWithinBounds ==
    \A a \in Cast(cfg) : \A i \in 1..Len(resources[a]) :
        ~resources[a][i].allow_overcap =>
            /\ resources[a][i].value >= 0
            /\ resources[a][i].value <= resources[a][i].maximum

\* the last call would have taken a resource out of its range had clamp not cut
\* it: a pay of more than is there or a gain past the maximum
C9_Witness ==
    /\ obs.op \in {"pay", "event"}
    /\ \E i \in 1..Len(resources[StActor]) :
          /\ ~resources[StActor][i].allow_overcap
          /\ \/ /\ obs.op = "pay"
                /\ \E k \in 1..Len(obs.costs) :
                      /\ obs.costs[k].name = obs.before[i].name
                      /\ obs.costs[k].cost > obs.before[i].value
                /\ resources[StActor][i].value = 0
             \/ /\ obs.op = "event"
                /\ obs.before[i].value < obs.before[i].maximum
                /\ obs.before[i].value + 2 > obs.before[i].maximum
                /\ obs.name = ON_TURN_START
                /\ resources[StActor][i].value = resources[StActor][i].maximum


(***************************************************************************)
(* Properties of the battle                                                 *)
(***************************************************************************)

\* Battle.run has returned or has raised
Returned == pc = "done"
Raised == pc = "error"

\* C1, the safety part: the turn counter never exceeds max_turns; when run has
\* returned a team is fully defeated or the turn counter equals max_turns, and
\* one battle_end event has been broadcast, carrying the final turn counter;
\* before run returns no battle_end event has been broadcast.
RunWithinCap ==
    /\ turn_number <= max_turns
    /\ Returned => /\ is_finished(alive) \/ turn_number = max_turns
                   /\ endEvents = <<[turns |-> turn_number]>>
    /\ ~Returned => endEvents = <<>>

\* C1: Battle.run(max_turns) terminates unless the no-action error is raised:
\* every run returns or raises, the turn counter never exceeds max_turns, on
\* return a team is fully defeated or the counter equals max_turns, and exactly
\* one battle_end event is broadcast, carrying the final turn counter.
C1_RunTerminatesWithinCap == []RunWithinCap /\ <>(Returned \/ Raised)

\* run has returned at the cap with both teams standing, after at least two turns
C1_Witness ==
    /\ Returned
    /\ turn_number = max_turns
    /\ turn_number >= 2
    /\ ~is_finished(alive)
    /\ endEvents = <<[turns |-> turn_number]>>

\* the last turn executed a skill without raising
Executed == obs.op = "turn" /\ obs.error = None /\ obs.executed

\* every executed skill was in the actor's available set of the turn, its
\* cooldown counter at zero
ExecutedSkillWasAvailable ==
    Executed => obs.skill.name \in obs.available /\ obs.cooldown = 0

\* C10: every skill executed in Battle.run is in the acting actor's available
\* set of that turn, and when pay is called every cost is at most the current
\* value of its resource, so that the payment takes the whole cost.
C10_ExecutedSkillIsPaidInFull ==
    Executed =>
        /\ obs.skill.name \in obs.available
        /\ obs.cooldown = 0
        /\ can_pay(obs.poolAtPay, obs.skill.costs)
        /\ \A k \in 1..Len(obs.skill.costs) :
              LET i == FindRes(obs.poolAtPay, obs.skill.costs[k].name)
              IN  i # 0 => obs.poolAfterPay[i].value
                              = obs.poolAtPay[i].value - obs.skill.costs[k].cost

\* a skill with a cost was executed and paid in full
PaidInFull ==
    /\ Executed
    /\ obs.skill.costs # <<>>
    /\ can_pay(obs.poolAtPay, obs.skill.costs)


\* the skill sk of an actor is one the claim says is offered: its cooldown
\* counter is zero and every resource its cost names is in the pool with at
\* least the cost
Offerable(cds, pool, sk) ==
    /\ cds[sk.name] = 0
    /\ \A k \in 1..Len(sk.costs) :
          \E i \in 1..Len(pool) : /\ pool[i].name = sk.costs[k].name
                                  /\ pool[i].value >= sk.costs[k].cost

OfferableNames(a, cds, pool) ==
    LET sel == SelectSeq(cfg.actors[a].skills, LAMBDA sk : Offerable(cds, pool, sk))
    IN  [k \in 1..Len(sel) |-> sel[k].name]

\* C11: at every turn available_skills returns exactly the actor's skills, in
\* their order, whose cooldown counter is zero and whose cost the pool can pay:
\* every resource named in the cost is in the pool with a value of at least the
\* cost.
C11_AvailableIsReadyAndAffordable ==
    obs.op = "turn" => obs.offered = OfferableNames(obs.actor, obs.cooldowns, obs.pool)

\* a turn at which one skill is left out for its cooldown and another for a
\* resource the pool does not have
C11_Witness ==
    /\ obs.op = "turn"
    /\ \E i, j \in 1..Len(cfg.actors[obs.actor].skills) :
          LET s1 == cfg.actors[obs.actor].skills[i]
              s2 == cfg.actors[obs.actor].skills[j]
          IN  /\ obs.cooldowns[s1.name] > 0
              /\ obs.cooldowns[s2.name] = 0
              /\ \E k \in 1..Len(s2.costs) : FindRes(obs.pool, s2.costs[k].name) = 0
              /\ s2.name \notin obs.available

\* a turn at which one skill is offered and another, its counter at zero, is
\* left out because its resource is below the cost
C11_WitnessBelowCost ==
    /\ obs.op = "turn"
    /\ obs.offered # <<>>
    /\ \E j \in 1..Len(cfg.actors[obs.actor].skills) :
          LET s2 == cfg.actors[obs.actor].skills[j]
          IN  /\ obs.cooldowns[s2.name] = 0
              /\ s2.name \notin obs.available
              /\ \E k \in 1..Len(s2.costs) :
                    LET i == FindRes(obs.pool, s2.costs[k].name)
                    IN  i # 0 /\ obs.pool[i].value < s2.costs[k].cost


\* the steps of Skill.execute found in a trace, in the order they were made
ExecuteSteps(tr) ==
    LET sel == SelectSeq(tr, LAMBDA e :
                   \/ e.kind = "call" /\ e.name \in {"pay", "perform", "start_cooldown"}
                   \/ e.kind = "event" /\ e.name = ON_USE_SKILL)
    IN  [k \in 1..Len(sel) |-> sel[k].name]

\* C12: a skill that is executed and returns has made its steps in this order:
\* broadcast of the skill-used event, payment of the cost, perform, start of the
\* cooldown; the skill-used event is the user's and names the skill, and after
\* execute the cooldown counter of the skill equals its configured cooldown.
C12_ExecuteOrder ==
    Executed =>
        /\ ExecuteSteps(obs.trace) = <<ON_USE_SKILL, "pay", "perform", "start_cooldown">>
        /\ \E i \in 1..Len(obs.trace) :
              /\ obs.trace[i].kind = "event"
              /\ obs.trace[i].name = ON_USE_SKILL
              /\ obs.trace[i].source = obs.actor
              /\ obs.trace[i].data = [skill |-> obs.skill.name]
        /\ cooldowns[obs.actor][obs.skill.name] = obs.skill.cooldown

\* a skill with a cooldown has been executed: its counter was zero when it was
\* chosen and is the configured cooldown now
C12_Witness ==
    /\ Executed
    /\ obs.skill.cooldown > 0
    /\ obs.cooldown = 0
    /\ cooldowns[obs.actor][obs.skill.name] = obs.skill.cooldown


\* the events named name that a trace holds for actor a
EventsFor(tr, name, a) ==
    {i \in 1..Len(tr) : tr[i].kind = "event" /\ tr[i].name = name /\ tr[i].source = a}

(***************************************************************************)
(* Properties of health                                                     *)
(***************************************************************************)

\* the heal just made was on a living actor with a positive amount
Healing == obs.op = "heal" /\ obs.alive /\ obs.amount > 0

\* C24: heal on a living actor is clamped to the missing health: it raises the
\* health by min(amount, maximum - current), never lowers it and never
\* returns a negative amount, also after a maximum-health bonus was removed
\* from an actor at full health; on a defeated actor or with an amount of
\* zero or less it changes nothing and returns zero.
C24_HealClampedToMissing ==
    obs.op = "heal" =>
        IF obs.alive /\ obs.amount > 0
        THEN /\ hp[Patient] = obs.hp + Min(obs.amount, obs.max - obs.hp)
             /\ hp[Patient] >= obs.hp
             /\ obs.returned >= 0
        ELSE /\ hp[Patient] = obs.hp
             /\ obs.returned = 0
             /\ obs.trace = <<>>

\* what the code keeps: the health moves by min(amount, maximum - current),
\* which is what heal returns, and nothing happens on a defeated actor or
\* with an amount of zero or less
HealMovesByMinimum ==
    obs.op = "heal" =>
        IF obs.alive /\ obs.amount > 0
        THEN /\ hp[Patient] = obs.hp + Min(obs.amount, obs.max - obs.hp)
             /\ obs.returned = Min(obs.amount, obs.max - obs.hp)
        ELSE /\ hp[Patient] = obs.hp
             /\ obs.returned = 0
             /\ obs.trace = <<>>


\* C25: in every reachable state of a battle an actor's current health is
\* clamped: never below zero and never above its derived maximum health.
C25_HealthClamped ==
    \A a \in Cast(cfg) : hp[a] >= 0 /\ hp[a] <= get(a, "hp")

\* what the code keeps in a battle: the health never exceeds the maximum, and
\* an actor whose health is zero or below is defeated
HealthAtMostMaximum ==
    \A a \in Cast(cfg) : hp[a] <= get(a, "hp") /\ (hp[a] <= 0 => ~alive[a])


(***************************************************************************)
(* Properties of the battlefield                                            *)
(***************************************************************************)

\* the effects added so far that fewer ticks have passed over than their
\* duration at the time; an effect added with no duration lasts until the
\* first tick
StillActive ==
    SelectSeq(fieldHist.added, LAMBDA h : fieldHist.ticks - h.at < Max(h.duration, 1))

RECURSIVE SumOfTag(_, _)
SumOfTag(hs, tag) ==
    IF hs = <<>> THEN 0
    ELSE (IF tag \in DOMAIN hs[1].modifiers THEN hs[1].modifiers[tag] ELSE 0)
         + SumOfTag(Tail(hs), tag)

\* the tick and expire events of a tick call's trace, in order, as
\* <<event name, effect name>>
FieldEvents(tr) ==
    LET evs == SelectSeq(tr, LAMBDA t : t.kind = "event")
    IN  [k \in 1..Len(evs) |-> <<evs[k].name, evs[k].data.effect, evs[k].data.listed>>]

\* what a tick over the list before must broadcast: for each effect its tick
\* event and, when its duration reaches zero or below, its expire event with
\* the effect still listed
RECURSIVE ExpectedEvents(_)
ExpectedEvents(before) ==
    IF before = <<>> THEN <<>>
    ELSE <<<<ON_FIELD_TICK, before[1].name, TRUE>>>>
         \o (IF before[1].duration - 1 <= 0
             THEN <<<<ON_FIELD_EXPIRE, before[1].name, TRUE>>>> ELSE <<>>)
         \o ExpectedEvents(Tail(before))

\* C23: Battlefield.tick takes one off the duration of every field effect
\* active when it is called and removes an effect exactly when its duration
\* reaches zero or below, after its on-expire event; after any sequence of
\* add_effect and tick calls query_modifier(tag) is the sum of the tag's
\* modifier over the effects still active, zero when none has it.
C23_FieldTickAndQuery ==
    /\ {global_effects[k].id : k \in 1..Len(global_effects)}
          = {StillActive[k].id : k \in 1..Len(StillActive)}
    /\ Len(global_effects) = Len(StillActive)
    /\ \A k \in 1..Len(global_effects) : \A h \in Range(StillActive) :
          h.id = global_effects[k].id =>
             global_effects[k].duration = h.duration - (fieldHist.ticks - h.at)
    /\ \A tag \in BfTags : query_modifier(tag) = SumOfTag(StillActive, tag)
    /\ obs.op = "tick" =>
          /\ obs.error = None
          /\ FieldEvents(obs.trace) = ExpectedEvents(obs.before)
          /\ global_effects =
                [k \in 1..Len(SelectSeq(obs.before, LAMBDA e : e.duration - 1 > 0)) |->
                    [SelectSeq(obs.before, LAMBDA e : e.duration - 1 > 0)[k]
                        EXCEPT !.duration = @ - 1]]

\* a tick that expired one effect and kept another, with a tag two effects
\* contribute to and a tag none has
C23_Witness ==
    /\ obs.op = "tick"
    /\ Len(global_effects) >= 2
    /\ Len(obs.before) > Len(global_effects)
    /\ query_modifier("fire") = 15
    /\ query_modifier("arcane") = 0
    /\ \E k \in 1..Len(obs.before) : obs.before[k].duration = 1


(***************************************************************************)
(* Properties of the damage formula                                         *)
(***************************************************************************)

\* the field modifier for a damage type, in hundredths, from the effects active
FieldModifier(damage_type) == SumOfTag(global_effects, damage_type)

\* how many of the skill's tags, with the suffix, the defender carries
Matching(sk, defender, suffix) ==
    Cardinality({k \in 1..Len(sk.tags) : (sk.tags[k] \o suffix) \in cfg.actors[defender].tags})

\* offense x power x max(0.1, 100 / (100 + defense)) x (1 + field modifier
\* +- 0.25 per matching tag) x crit factor, as a fraction; the defense is the
\* defender's defense against physical damage and its resistance stat
\* against the rest
Claimed(o) ==
    LET offense == IF o.skill.damage_type \in {"physical", "true"}
                   THEN get(o.attacker, "atk") ELSE get(o.attacker, "mag")
        defense == IF o.skill.damage_type = "physical"
                   THEN get(o.target, "defense") ELSE get(o.target, "resistance")
        \* 100 / (100 + defense) >= 1 / 10
        above == 100 + defense > 0 /\ 100 * 10 >= 100 + defense
        mitigation == IF above THEN [num |-> 100, den |-> 100 + defense]
                      ELSE [num |-> 1, den |-> 10]
        modifier == 100 + FieldModifier(o.skill.damage_type)
                    + 25 * Matching(o.skill, o.target, "_weak")
                    - 25 * Matching(o.skill, o.target, "_resist")
        crit == IF o.is_crit THEN get(o.attacker, "crit_damage") ELSE 100
    IN  [num |-> offense * o.skill.power * mitigation.num * modifier * crit,
         den |-> mitigation.den * 100 * 100]

RECURSIVE GCD(_, _)
GCD(m, n) == IF n = 0 THEN m ELSE GCD(n, m % n)

\* a fraction of positive denominator in lowest terms
Reduced(f) ==
    LET g == GCD(IF f.num < 0 THEN -f.num ELSE f.num, f.den)
    IN  [num |-> f.num \div g, den |-> f.den \div g]

\* the strike of the example: atk 180, power 1, physical, defense 120, no
\* tags, no critical hit, no field effect
ExampleStrike ==
    /\ obs.op = "strike"
    /\ obs.skill = Attack("Golpe", 1, 0, <<>>)
    /\ obs.target = "a1"
    /\ ~obs.is_crit
    /\ global_effects = <<>>

\* C29: compute_damage returns offense x power x max(0.1, 100 / (100 + the
\* defender's defense stat)) x (1 + battlefield modifier for the damage type,
\* +- 0.25 per matching weakness or resistance tag), times the crit-damage
\* factor on a critical roll, the offense being the attacker's derived atk
\* for physical and true damage and its derived mag otherwise; with atk 180,
\* power 1.0 physical, defense 120, no tags, no crit and no field effect the
\* defender loses 180 x 100 / 220, about 81.8, health.
C29_DamageFormula ==
    obs.op = "strike" =>
        /\ Reduced(obs.fraction) = Reduced(Claimed(obs))
        /\ obs.damage = Claimed(obs).num \div Claimed(obs).den
        /\ obs.hpBefore - hp[obs.target] = obs.damage
        /\ ExampleStrike =>
              /\ Reduced(obs.fraction) = Reduced([num |-> 180 * 100, den |-> 220])
              /\ (10 * Reduced(obs.fraction).num) \div Reduced(obs.fraction).den = 818
              /\ obs.hpBefore - hp[obs.target] = 81

C29_Witness == ExampleStrike /\ obs.hpBefore = 1000 /\ hp["a1"] = 919

\* a critical strike of a tagged skill under a field effect, and a strike
\* that meets the floor of the mitigation
C29_WitnessModified ==
    /\ obs.op = "strike"
    /\ obs.is_crit
    /\ obs.skill.damage_type = "fire"
    /\ obs.target = "a2"
    /\ FieldModifier("fire") = 15

C29_WitnessFloor ==
    /\ obs.op = "strike"
    /\ obs.skill.damage_type = "physical"
    /\ obs.target = "a2"
    /\ obs.damage = 18


(***************************************************************************)
(* Properties of a battle against an actor with one point of health         *)
(***************************************************************************)

\* the battle of the knight against the wounded caster, with a cap that
\* leaves room for the knight's buff, the caster's turn and the knight's strike
OneHealthBattle == cfg = Execution /\ max_turns > 3

\* the turns taken so far: every turn puts the actor back on the timeline
TurnsTaken == counter - Len(Members(cfg))

\* run has returned with the wounded actor's team defeated, before the cap,
\* and its battle_end event carries the turns taken
EndedByDefeat ==
    /\ Returned
    /\ is_defeated(alive, "b")
    /\ ~is_defeated(alive, "a")
    /\ turn_number < max_turns
    /\ endEvents = <<[turns |-> TurnsTaken]>>

\* once a team is defeated no turn is taken
NoTurnAfterDefeat ==
    (cfg = Execution /\ is_defeated(alive, "b")) =>
        /\ turn_number' = turn_number
        /\ counter' = counter
        /\ hp' = hp

\* C28: in a battle of two single-member teams where one member starts with
\* health 1 and the opponent's attack always deals positive damage, run ends
\* with that member's team defeated, before the turn cap; no actor takes a
\* turn after the team is defeated, and the battle-end event carries the
\* number of turns actually taken.
C28_OneHealthBattleEnds ==
    /\ OneHealthBattle => <>EndedByDefeat
    /\ [][NoTurnAfterDefeat]_vars
    /\ [](cfg = Execution /\ pc # "new" /\ endEvents # <<>> =>
             endEvents = <<[turns |-> TurnsTaken]>>)

C28_Witness == OneHealthBattle /\ EndedByDefeat /\ hp["b1"] < 1 /\ TurnsTaken = 3


(***************************************************************************)
(* Properties of the timeline during the battle                             *)
(***************************************************************************)

\* the entries the timeline holds for an actor
EntriesOf(a) == {i \in 1..Len(queue) : queue[i].combatant = a}

\* run is at the top of its loop and the condition of the loop holds
Looping == pc = "running" /\ LoopCond

\* C30: while Battle.run is looping (turn cap not reached, neither team
\* defeated) the timeline is never empty when pop_next is called: at the start
\* of every iteration each living member of both teams has exactly one entry.
C30_LivingActorsHaveOneEntry ==
    Looping =>
        /\ queue # <<>>
        /\ \A a \in Cast(cfg) : alive[a] => Cardinality(EntriesOf(a)) = 1

\* an iteration that starts after a turn, with a defeated actor's entry still
\* on the timeline
C30_Witness ==
    /\ Looping
    /\ obs.op = "turn"
    /\ turn_number >= 2
    /\ \E a \in Cast(cfg) : ~alive[a] /\ EntriesOf(a) # {}


(***************************************************************************)
(* Properties of the cooldowns                                              *)
(***************************************************************************)

\* the skills of the acting actor that have a cooldown and that the actor has
\* used, with the turns it has started since: j = 1 is its next turn
Cooling ==
    {s \in Range(cfg.actors[obs.actor].skills) : s.cooldown >= 1 /\ obs.since[s.name] >= 1}

\* C31: after an actor uses a skill with configured cooldown c >= 1, the skill
\* is absent from the actor's available set for its next c turns, and is
\* offered again on the turn after those (when the pool can pay it).
C31_AbsentForCooldownTurns ==
    obs.op = "turn" =>
        \A s \in Cooling :
            /\ obs.since[s.name] <= s.cooldown => s.name \notin obs.available
            /\ (obs.since[s.name] = s.cooldown + 1 /\ can_pay(obs.pool, s.costs))
                  => s.name \in obs.available

\* what the code does: the counter set to c by the use is lowered at the start
\* of the next turn before the available set is read, so the skill is absent
\* for c - 1 turns and offered again on the c-th
AbsentForOneTurnLess ==
    obs.op = "turn" =>
        \A s \in Cooling :
            /\ obs.since[s.name] < s.cooldown => s.name \notin obs.available
            /\ (obs.since[s.name] >= s.cooldown /\ can_pay(obs.pool, s.costs))
                  => s.name \in obs.available
            /\ obs.cooldowns[s.name] = Max(s.cooldown - obs.since[s.name], 0)

\* an actor's next turn after it used a skill with cooldown 1, the skill offered
OfferedOnNextTurn ==
    /\ obs.op = "turn"
    /\ \E s \in Cooling :
          s.cooldown = 1 /\ obs.since[s.name] = 1 /\ s.name \in obs.available


(***************************************************************************)
(* Properties of apply with an unknown stat                                 *)
(***************************************************************************)

\* the last operation was an apply of an effect naming an unknown stat
UnknownApplied == obs.op = "apply" /\ UnknownStat(obs.effect)

\* the events of applied effects among the records of a trace
ApplyEvents(tr) ==
    {i \in 1..Len(tr) : tr[i].kind = "event" /\ tr[i].name = ON_APPLY_EFFECT}

\* C32: EffectController.apply of an effect whose modifiers name a stat outside
\* the recognized vocabulary fails without partially applying: no effect entry
\* is added or changed, no stat bonus changes and no apply event is broadcast.
C32_UnknownStatAppliesNothing ==
    UnknownApplied =>
        /\ obs.raised
        /\ effects[StActor] = obs.effectsBefore
        /\ bonus[StActor] = obs.bonusBefore
        /\ ApplyEvents(obs.trace) = {}

\* the part of C32 the code keeps: the call raises and broadcasts no apply
\* event, and the stats named after the unknown one are not touched
RaisesWithoutEvent ==
    UnknownApplied =>
        /\ obs.raised
        /\ ApplyEvents(obs.trace) = {}
        /\ \A k \in 1..Len(obs.effect.modifiers) :
              (/\ obs.effect.modifiers[k].stat \in STAT_NAMES
               /\ \E j \in 1..(k - 1) : obs.effect.modifiers[j].stat \notin STAT_NAMES)
                 => bonus[StActor][obs.effect.modifiers[k].stat]
                       = obs.bonusBefore[obs.effect.modifiers[k].stat]

\* the entry is stored or merged, and the modifiers before the unknown one are
\* applied, before the call raises
AppliedInPart ==
    /\ UnknownApplied
    /\ obs.raised
    /\ effects[StActor] # obs.effectsBefore
    /\ bonus[StActor] # obs.bonusBefore


(***************************************************************************)
(* Properties of the decision policy                                        *)
(***************************************************************************)

\* C27: the decision policy fails with a no-action error if and only if the
\* acting actor has no available skill; otherwise it returns one action that
\* pairs the acting actor with a skill of its available set.
C27_NoActionIffNothingAvailable ==
    obs.op = "turn" =>
        /\ (obs.error = "RuntimeError") <=> (obs.available = {})
        /\ obs.available # {} =>
              /\ "skill" \in DOMAIN obs
              /\ obs.skill.name \in obs.available
              /\ obs.skill \in Range(cfg.actors[obs.actor].skills)
              /\ obs.executed =>
                    \E i \in 1..Len(obs.trace) :
                       /\ obs.trace[i].kind = "event"
                       /\ obs.trace[i].name = ON_USE_SKILL
                       /\ obs.trace[i].source = obs.actor
                       /\ obs.trace[i].data.skill = obs.skill.name

\* a turn on which the policy raised, the actor having skills but none available
C27_Witness ==
    /\ obs.op = "turn"
    /\ obs.error = "RuntimeError"
    /\ obs.available = {}
    /\ pc = "error"
    /\ Len(cfg.actors[obs.actor].skills) > 0

\* a turn on which the policy chose among two available skills
C27_WitnessChosen ==
    /\ obs.op = "turn"
    /\ obs.error = None
    /\ Cardinality(obs.available) >= 2
    /\ obs.skill.name \in obs.available


(***************************************************************************)
(* Properties of a skill that finds no target                               *)
(***************************************************************************)

\* the turn just taken executed an attack for which target selection found no
\* living enemy
Fizzled ==
    /\ obs.op = "turn"
    /\ "skill" \in DOMAIN obs
    /\ obs.executed
    /\ obs.skill.kind = "attack"
    /\ obs.target = None

\* the position of the perform call in a trace
PerformAt(tr) == CHOOSE i \in 1..Len(tr) : tr[i].kind = "call" /\ tr[i].name = "perform"

\* C26: when target selection finds no living enemy the skill fizzles without
\* error: perform skips the missing target, no damage or attack event is
\* emitted, no actor's health changes, and the turn completes normally with
\* the cost paid, the cooldown started and the actor rescheduled.
C26_FizzleWithoutError ==
    Fizzled =>
        /\ obs.error = None
        /\ pc = "running"
        /\ \A i \in PerformAt(obs.trace)..Len(obs.trace) :
              obs.trace[i].kind = "event" =>
                 obs.trace[i].name \notin {ON_RECEIVE_DAMAGE, ON_ATTACK, ON_HEALED}
        /\ hp = obs.hpAtAction
        /\ resources[obs.actor] = pay(obs.poolAtPay, obs.skill.costs)
        /\ cooldowns[obs.actor][obs.skill.name] = obs.skill.cooldown
        /\ \E i \in PerformAt(obs.trace)..Len(obs.trace) :
              obs.trace[i].kind = "event" /\ obs.trace[i].name = ON_TURN_END
        /\ \E e \in Range(queue) :
              /\ e.combatant = obs.actor
              /\ e.counter = counter - 1
              /\ e.ready_at = time + Interval(get(obs.actor, "speed"))
        /\ turn_number = obs.before.turn_number + 1

\* a fizzled skill that has a cost and a cooldown
C26_Witness ==
    /\ Fizzled
    /\ obs.skill.costs # <<>>
    /\ obs.skill.cooldown > 0
    /\ resources[obs.actor] # obs.pool
    /\ is_finished(alive)


(***************************************************************************)
(* Properties of the binding of the actors to the battle's bus              *)
(***************************************************************************)

\* once the battle is constructed every event of its actors is broadcast on
\* the battle's manager
EventsOnBattleBus ==
    obs.op \in {"new", "turn"} =>
        \A i \in 1..Len(obs.trace) :
            obs.trace[i].kind = "event" => obs.trace[i].bus = "battle"

\* resource i of actor t has a rule that adds on the event name
HasGain(t, i, name) ==
    \E k \in 1..Len(resources[t][i].gain_on_events) :
        /\ resources[t][i].gain_on_events[k].event = name
        /\ resources[t][i].gain_on_events[k].amount > 0

\* a damage-received event broadcast for an actor during a turn of the battle
\* raises every resource of that actor that has a gain for it and is not full
DamageTriggersGain ==
    obs'.op = "turn" =>
        \A t \in Cast(cfg) : \A i \in 1..Len(resources[t]) :
            (/\ EventsFor(obs'.trace, ON_RECEIVE_DAMAGE, t) # {}
             /\ HasGain(t, i, ON_RECEIVE_DAMAGE)
             /\ resources[t][i].value < resources[t][i].maximum)
                => resources'[t][i].value > resources[t][i].value

\* C20: after a Battle is constructed every member actor is bound to the
\* battle's one bus for all of its components: its damage, turn and effect
\* events are broadcast on that bus and its resource gains listen on it, so a
\* damage-received event of the battle triggers the actor's configured gain,
\* whatever bus the actor was created with.
C20_BoundToBattleBus == []EventsOnBattleBus /\ [][DamageTriggersGain]_vars

\* the part of C20 the code keeps: the actors' own broadcasts (damage, turn,
\* skill, exit) go out on the battle's manager
OwnEventsOnBattleBus ==
    pc # "new" => \A a \in Cast(cfg) : event_manager[a] = "battle"


(***************************************************************************)
(* Properties of damage and death                                           *)
(***************************************************************************)

\* an actor is defeated exactly when its one exit event and its one team
\* notification have been emitted, and an actor that apply_damage leaves at
\* zero health or below is defeated
DefeatedOnce ==
    /\ \A a \in Cast(cfg) :
          /\ exits[a].events = (IF alive[a] THEN 0 ELSE 1)
          /\ exits[a].notified = exits[a].events
    /\ (obs.op = "apply_damage" /\ hp[obs.actor] <= 0) => ~alive[obs.actor]

\* no step makes a defeated actor alive
StaysDefeated == \A a \in Cast(cfg) : ~alive[a] => ~alive'[a]

\* C13: an actor whose health reaches zero or below in apply_damage becomes
\* defeated; over any sequence of apply_damage and die calls, listeners that
\* strike again on the damage-received and exit events included, the exit
\* event and the team notification are emitted exactly once per defeated actor,
\* and a defeated actor never becomes alive again.
C13_DefeatedExactlyOnce == []DefeatedOnce /\ [][StaysDefeated]_vars

\* an apply_damage call during which the listener struck the actor again and
\* the actor died, the listener being registered on the exit event as well
C13_Witness ==
    /\ obs.op = "apply_damage"
    /\ obs.before.alive[obs.actor]
    /\ ~alive[obs.actor]
    /\ Cardinality(EventsFor(obs.trace, ON_RECEIVE_DAMAGE, obs.actor)) = 2
    /\ Cardinality(EventsFor(obs.trace, ON_EXIT_BATTLE, obs.actor)) = 1
    /\ \E i \in 1..Len(listeners["battle"][ON_EXIT_BATTLE]) :
          listeners["battle"][ON_EXIT_BATTLE][i].listener = StrikeAgain


\* max(raw damage * (1 - resistance), 0) for actor a, the resistance in percent
Mitigated(a, amount, damage_type) ==
    Max((amount * (100 - cfg.actors[a].resistances[damage_type])) \div 100, 0)

RECURSIVE SumAmounts(_, _)
SumAmounts(tr, a) ==
    IF tr = <<>> THEN 0
    ELSE (IF tr[1].kind = "event" /\ tr[1].name = ON_RECEIVE_DAMAGE /\ tr[1].source = a
          THEN tr[1].data.amount ELSE 0) + SumAmounts(Tail(tr), a)

\* C14: apply_damage on a defeated actor changes no state, broadcasts no event
\* and returns zero; on a living actor it takes max(raw damage * (1 - resistance
\* for the type), 0) from health, broadcasts it and returns it (health falls by
\* that and by what listeners strike during the call), and never raises health.
C14_DamageMitigatedNeverHeals ==
    obs.op = "apply_damage" =>
        LET a == obs.actor
            m == Mitigated(a, obs.amount, obs.type)
        IN  /\ hp[a] <= obs.before.hp[a]
            /\ IF obs.before.alive[a]
               THEN /\ obs.returned = m
                    /\ obs.trace # <<>>
                    /\ obs.trace[1] = [kind |-> "event", bus |-> event_manager[a],
                                       name |-> ON_RECEIVE_DAMAGE, source |-> a,
                                       data |-> [amount |-> m, type |-> obs.type,
                                                 is_crit |-> FALSE, attacker |-> Hero]]
                    /\ hp[a] = obs.before.hp[a] - SumAmounts(obs.trace, a)
                    /\ (Cardinality(EventsFor(obs.trace, ON_RECEIVE_DAMAGE, a)) = 1
                           => hp[a] = obs.before.hp[a] - m)
               ELSE /\ obs.returned = 0
                    /\ obs.trace = <<>>
                    /\ hp = obs.before.hp
                    /\ alive = obs.before.alive
                    /\ resources = obs.before.resources
                    /\ exits = obs.before.exits

\* apply_damage with a positive amount was called on a defeated actor
C14_Witness ==
    /\ obs.op = "apply_damage"
    /\ ~obs.before.alive[obs.actor]
    /\ Mitigated(obs.actor, obs.amount, obs.type) > 0

\* apply_damage on a living actor whose resistance for the type is above one,
\* and one called with a negative amount: nothing is taken
C14_WitnessNothingTaken ==
    /\ obs.op = "apply_damage"
    /\ obs.before.alive[obs.actor]
    /\ obs.amount > 0
    /\ cfg.actors[obs.actor].resistances[obs.type] > 100
    /\ hp[obs.actor] = obs.before.hp[obs.actor]


(***************************************************************************)
(* Properties of the turn loop                                              *)
(***************************************************************************)

\* what a pass of the loop of Battle.run does, by the actor of the entry it pops:
\* for a defeated actor the entry leaves the queue and nothing else changes (no
\* clock, no turn counter, no hook, no event, no new entry); for a living actor
\* the turn counter goes up by exactly one and the turn is that actor's
PassOfTheLoop ==
    (pc = "running" /\ LoopCond /\ queue # <<>>) =>
        LET entry == HeapPop(queue)[1]
        IN  IF ~alive[entry.combatant]
            THEN /\ time' = time
                 /\ turn_number' = turn_number
                 /\ Len(queue') = Len(queue) - 1
                 /\ \A i \in 1..Len(queue') : \E j \in 1..Len(queue) : queue'[i] = queue[j]
                 /\ \A i \in 1..Len(queue') : queue'[i] # entry
                 /\ counter' = counter
                 /\ UNCHANGED <<hp, alive, cooldowns, effects, resources, current, bonus, exits,
                                global_effects, pc>>
                 /\ obs'.op = "discard"
            ELSE /\ turn_number' = turn_number + 1
                 /\ obs'.op = "turn"
                 /\ obs'.actor = entry.combatant

\* C15: in Battle.run an entry popped for a defeated actor is discarded without
\* advancing the clock, incrementing the turn counter, running a hook or
\* rescheduling the actor; every turn taken by a living actor adds exactly one
\* to the turn counter.
C15_DeadEntryDiscarded == [][PassOfTheLoop]_vars

\* the entry of a defeated actor has been discarded after some turns, and the
\* battle goes on
C15_Witness ==
    /\ obs.op = "discard"
    /\ ~alive[obs.actor]
    /\ turn_number >= 1
    /\ pc = "running"
    /\ LoopCond


\* manager.register(event, listener) for each listener of the scenario
RECURSIVE Hooked(_, _)
Hooked(ls, hooks) ==
    IF hooks = <<>> THEN ls
    ELSE Hooked([ls EXCEPT !["battle"][hooks[1].event] = register(@, hooks[1].listener, 0)],
                Tail(hooks))

(***************************************************************************)
(* Specifications                                                           *)
(***************************************************************************)

InitWith(scenarios, caps) ==
    /\ queue = <<>>
    /\ counter = 0
    /\ addOrder = <<>>
    /\ cfg \in scenarios
    /\ listeners = Hooked(Constructed([b \in Buses |-> [ev \in EventNames |-> <<>>]], cfg,
                                      Members(cfg)),
                          Hooks(cfg))
    /\ regOrder = [ev \in EventNames |-> listeners[EvBus][ev]]
    /\ stack = <<>>
    /\ evCalls = [regs |-> 0, broadcasts |-> 0]
    /\ current = [a \in Cast(cfg) |-> cfg.actors[a].stats]
    /\ bonus = [a \in Cast(cfg) |-> [name \in STAT_NAMES |-> 0]]
    /\ sumDeltas = [a \in Cast(cfg) |-> [name \in STAT_NAMES |-> 0]]
    /\ overridden = [a \in Cast(cfg) |-> [name \in STAT_NAMES |-> FALSE]]
    /\ pinned = [a \in Cast(cfg) |-> [name \in STAT_NAMES |-> NotPinned]]
    /\ effects = [a \in Cast(cfg) |-> <<>>]
    /\ efHist = [a \in Cast(cfg) |-> [name \in EffectNames |-> NoHist]]
    /\ resources = [a \in Cast(cfg) |-> cfg.actors[a].resources]
    /\ hp = [a \in Cast(cfg) |-> get(a, "hp")]
    /\ alive = [a \in Cast(cfg) |-> TRUE]
    /\ cooldowns = [a \in Cast(cfg) |-> [n \in SkillNames(a) |-> 0]]
    /\ event_manager = [a \in Cast(cfg) |-> BusOf(cfg, a)]
    /\ global_effects = <<>>
    /\ turn_number = 0
    /\ time = 0
    /\ max_turns \in caps
    /\ pc = "new"
    /\ endEvents = <<>>
    /\ sinceUse = [a \in Cast(cfg) |-> [n \in SkillNames(a) |-> -1]]
    /\ exits = [a \in Cast(cfg) |-> [events |-> 0, notified |-> 0]]
    /\ damage_types = DAMAGE_TYPES_LIST
    /\ resistance_bonus = [a \in Cast(cfg) |-> [d \in DAMAGE_TYPES |-> 0]]
    /\ fieldHist = [added |-> <<>>, ticks |-> 0]
    /\ ops = 0
    /\ obs = NoObs

InitCommon == InitWith({KnightVsMage}, {0})

NextTimeline == TlAdd \/ TlPop

SpecTimeline == InitCommon /\ [][NextTimeline]_vars

NextEvents ==
    \/ EvRegister
    \/ EvUnregister
    \/ EvBroadcastStart
    \/ EvInvokePlain
    \/ EvInvokeRegister
    \/ EvInvokeUnregister
    \/ EvBroadcastEnd

SpecEvents == InitCommon /\ [][NextEvents]_vars

NextStats ==
    \/ StApplyModifier
    \/ StSetOverride
    \/ StRefresh
    \/ StApplyResistanceModifier
    \/ StInvalidName

SpecStats == InitCommon /\ [][NextStats]_vars

NextEffects == EfApply \/ EfRemove \/ EfTickAll

NextSchedule == ScModify \/ ScAdd \/ TlPop

SpecSchedule == InitCommon /\ [][NextSchedule]_vars

NextField == BfAddEffect \/ BfTick

SpecField == InitCommon /\ [][NextField]_vars

NextHealth == HlApplyEffect \/ HlRemoveEffect \/ HlHeal \/ HlDamage

SpecHealth == InitCommon /\ [][NextHealth]_vars

NextFormula == CdStrike \/ BfAddEffect \/ BfTick

SpecFormula == InitWith({Sparring}, {0}) /\ [][NextFormula]_vars

SpecEffects == InitCommon /\ [][NextEffects]_vars

\* the effect controller exercised on its own with effects of unknown stats too
NextUnknown == EfApply \/ EuApply \/ EfRemove

SpecUnknown == InitCommon /\ [][NextUnknown]_vars

NextDamage == DmRegister \/ DmApplyDamage \/ DmDie

SpecDamage == InitWith({Skirmish}, {0}) /\ [][NextDamage]_vars

NextResources == RsPay \/ RsAdd \/ RsTurnStart \/ RsEvent

SpecResources == InitWith({BerserkerVsMage}, {0}) /\ [][NextResources]_vars

Init == InitWith(Scenarios, 0..MaxTurnCap)

Next == BattleNew \/ RunTurn \/ RunDiscard \/ RunEnd

Spec == Init /\ [][Next]_vars

\* run has left its loop: it returned or it raised
Left == pc \in {"done", "error"}

\* a step of the battle is possible exactly until run has left its loop
StepUntilLeft == Left <=> ~ENABLED <<Next>>_vars

\* run is one synchronous call: it keeps taking steps until it returns or
\* raises.  This is WF_vars(Next) with ENABLED <<Next>>_vars written as ~Left,
\* which StepUntilLeft shows to be the same in every reachable state.
FairSpec == Spec /\ ([]<>Left \/ []<><<Next>>_vars)

====
